---- MODULE Spec2Model ----
(***************************************************************************)
(* Transcript-driven audio segmentation (src/version2.py, the page script  *)
(* served by the Flask application): transcript parsing, end-time          *)
(* synthesis, segment extraction, the WAV encoder, clip filenames and the  *)
(* archive.                                                                *)
(*                                                                         *)
(* Representation.  A JavaScript string is a sequence of one-character     *)
(* strings.  A time is an exact number of milliseconds (TicksPerSecond     *)
(* ticks to the second), so 1.5 s is 1500; the script's doubles are not    *)
(* modelled beyond that.  The value `undefined` of a missing `end` is the  *)
(* sentinel Undefined, and NaN is the sentinel NaN.                        *)
(***************************************************************************)
EXTENDS Integers, Sequences, FiniteSets, TLC

VARIABLES
    txt,                \* content of the selected transcript file
    timestamped,        \* parseTranscriptFile's local list of entries
    parsedSegments,     \* page global: the segments handed to extraction
    audioBuffer,        \* page global: decoded mono samples (<<>> when null)
    sampleRate,         \* page global: sample rate in Hz (0 when unset)
    extractedSegments,  \* page global: the clips of the last Process run
    segmentLog,         \* lines appended to #segmentLog
    resultsStatus,      \* text of #resultsStatus
    zipDisabled,        \* #downloadZipBtn.disabled
    mTotal,             \* number shown in #mTotal
    zip,                \* the archive of the last download (<<>> before)
    done,               \* the handlers that have run so far
    audioFile,          \* page global: the audio file selected last
    pending,            \* the files whose loadAudio has not settled yet
    download_status,    \* server global: download id -> status entry
    clock,              \* time.time() on the server, in seconds
    cleanup_thread,     \* the background_cleanup thread
    cleanup_request,    \* the handler of a POST /api/cleanup request
    threads,            \* download id -> its download_audio_background thread
    arg,                \* argument of a function called on its own
    ret                 \* what the calls on `arg` have returned so far

vars == <<txt, timestamped, parsedSegments, audioBuffer, sampleRate,
          extractedSegments, segmentLog, resultsStatus, zipDisabled, mTotal,
          zip, done, audioFile, pending, download_status, clock,
          cleanup_thread, cleanup_request, threads, arg, ret>>

\* the state of the server process
ServerVars ==
    <<download_status, clock, cleanup_thread, cleanup_request, threads>>

(***************************************************************************)
(* Values                                                                  *)
(***************************************************************************)
TicksPerSecond == 1000

Undefined == -1

NaN == -2

\* Python's None
None == "None"

\* time.sleep(1800): the seconds between two background cleanup passes
SleepSeconds == 1800

\* the age in seconds beyond which a cleanup pass removes an entry
MaxAge == 3600

Digits == <<"0", "1", "2", "3", "4", "5", "6", "7", "8", "9">>

IsDigit(c) == \E k \in 1..10 : Digits[k] = c

DigitVal(c) == (CHOOSE k \in 1..10 : Digits[k] = c) - 1

\* \s of the regular expressions and of String.prototype.trim
IsSpace(c) == c \in {" ", "\t", "\r", "\n"}

\* "." of the regular expressions matches anything but a line terminator
IsDot(c) == c \notin {"\r", "\n"}

At(s, i) == IF i >= 1 /\ i <= Len(s) THEN s[i] ELSE ""

From(s, i) == SubSeq(s, i, Len(s))

AllSpace(s) == \A k \in 1..Len(s) : IsSpace(s[k])

AllDot(s) == \A k \in 1..Len(s) : IsDot(s[k])

\* first index >= i that holds no whitespace (Len(s) + 1 when there is none)
SkipSpace(s, i) ==
    CHOOSE j \in i..(Len(s) + 1) :
        /\ \A k \in i..(j - 1) : IsSpace(s[k])
        /\ ~IsSpace(At(s, j))

\* String.prototype.trim
Trim(s) ==
    IF AllSpace(s) THEN <<>>
    ELSE LET a == CHOOSE j \in 1..Len(s) :
                    ~IsSpace(s[j]) /\ \A k \in 1..(j - 1) : IsSpace(s[k])
             b == CHOOSE j \in 1..Len(s) :
                    ~IsSpace(s[j]) /\ \A k \in (j + 1)..Len(s) : IsSpace(s[k])
         IN  SubSeq(s, a, b)

\* String.prototype.split on a one-character separator
RECURSIVE SplitOn(_, _)
SplitOn(s, sep) ==
    IF \A k \in 1..Len(s) : s[k] # sep THEN <<s>>
    ELSE LET j == CHOOSE j \in 1..Len(s) :
                    s[j] = sep /\ \A k \in 1..(j - 1) : s[k] # sep
         IN  <<SubSeq(s, 1, j - 1)>> \o SplitOn(From(s, j + 1), sep)

\* text.split(/\r?\n/)
RECURSIVE SplitLines(_)
SplitLines(s) ==
    IF \A k \in 1..Len(s) : s[k] # "\n" THEN <<s>>
    ELSE LET j == CHOOSE j \in 1..Len(s) :
                    s[j] = "\n" /\ \A k \in 1..(j - 1) : s[k] # "\n"
             e == IF At(s, j - 1) = "\r" THEN j - 2 ELSE j - 1
         IN  <<SubSeq(s, 1, e)>> \o SplitLines(From(s, j + 1))

\* Number() of a run of decimal digits
RECURSIVE DigitsValue(_)
DigitsValue(s) ==
    IF s = <<>> THEN 0
    ELSE 10 * DigitsValue(SubSeq(s, 1, Len(s) - 1)) + DigitVal(s[Len(s)])

\* a fraction of up to three digits, in ticks
FractionTicks(f) ==
    LET d(k) == IF k <= Len(f) THEN DigitVal(f[k]) ELSE 0
    IN  100 * d(1) + 10 * d(2) + d(3)

\* Number() of a capture of \d+\.?\d*, in ticks
NumberTicks(s) ==
    LET p == SplitOn(s, ".")
    IN  DigitsValue(p[1]) * TicksPerSecond
        + (IF Len(p) > 1 THEN FractionTicks(p[2]) ELSE 0)

(***************************************************************************)
(* Timestamp conversions                                                   *)
(***************************************************************************)
\* as hhmmssToSeconds, the hours weighted like the minutes
hhmmssToSecondsHoursAsMinutes(t) ==
    LET p  == SplitOn(t, ":")
        hh == DigitsValue(p[1])
        mm == DigitsValue(p[2])
        ss == DigitsValue(p[3])
    IN  (hh * 60 + mm * 60 + ss) * TicksPerSecond

hhmmssToSeconds(t) ==
    LET p  == SplitOn(t, ":")
        hh == DigitsValue(p[1])
        mm == DigitsValue(p[2])
        ss == DigitsValue(p[3])
    IN  (hh * 3600 + mm * 60 + ss) * TicksPerSecond

srtToSeconds(t) ==
    LET p == SplitOn(t, ",")
    IN  hhmmssToSeconds(p[1]) + (DigitsValue(p[2]) * TicksPerSecond) \div 1000

simpleToSeconds(t) ==
    LET p == SplitOn(t, ":")
        m == DigitsValue(p[1])
        s == DigitsValue(p[2])
    IN  (m * 60 + s) * TicksPerSecond

(***************************************************************************)
(* The regular expressions of parseTranscriptFile.  Each M<n> is the       *)
(* match object of the n-th expression tried on a trimmed line: ok, and    *)
(* the captures g1, g2, g3 as the backtracking matcher leaves them.        *)
(***************************************************************************)
NoMatch == [ok |-> FALSE, g1 |-> <<>>, g2 |-> <<>>, g3 |-> <<>>]

Match(a, b, c) == [ok |-> TRUE, g1 |-> a, g2 |-> b, g3 |-> c]

\* \d{2}:\d{2}:\d{2} at index i
IsHMS(s, i) ==
    /\ IsDigit(At(s, i)) /\ IsDigit(At(s, i + 1)) /\ At(s, i + 2) = ":"
    /\ IsDigit(At(s, i + 3)) /\ IsDigit(At(s, i + 4)) /\ At(s, i + 5) = ":"
    /\ IsDigit(At(s, i + 6)) /\ IsDigit(At(s, i + 7))

\* \d{2}:\d{2}:\d{2},\d{3} at index i
IsSRT(s, i) ==
    /\ IsHMS(s, i) /\ At(s, i + 8) = ","
    /\ IsDigit(At(s, i + 9)) /\ IsDigit(At(s, i + 10)) /\ IsDigit(At(s, i + 11))

\* length of the match of \d{1,2}:\d{2} at index i, 0 when there is none
MSLen(s, i) ==
    IF /\ IsDigit(At(s, i)) /\ At(s, i + 1) = ":"
       /\ IsDigit(At(s, i + 2)) /\ IsDigit(At(s, i + 3))
    THEN 4
    ELSE IF /\ IsDigit(At(s, i)) /\ IsDigit(At(s, i + 1)) /\ At(s, i + 2) = ":"
            /\ IsDigit(At(s, i + 3)) /\ IsDigit(At(s, i + 4))
    THEN 5
    ELSE 0

\* number of consecutive digits from index i on
DigitRun(s, i) ==
    CHOOSE n \in 0..(Len(s) + 1) :
        /\ \A k \in i..(i + n - 1) : IsDigit(At(s, k))
        /\ ~IsDigit(At(s, i + n))

\* the lengths of the prefixes of s[i..] that \d+\.?\d* can match
NumLens(s, i) ==
    LET n1 == DigitRun(s, i)
        n2 == DigitRun(s, i + n1 + 1)
    IN  IF n1 = 0 THEN {}
        ELSE (1..n1) \cup
             (IF At(s, i + n1) = "." THEN (n1 + 1)..(n1 + 1 + n2) ELSE {})

SetMax(S) == CHOOSE x \in S : \A y \in S : y <= x

\* \s*(.+)$ (minWs = 0) or \s+(.+)$ (minWs = 1) on the rest r of the line
TailSplits(r, minWs) ==
    {k \in minWs..(Len(r) - 1) :
        AllSpace(SubSeq(r, 1, k)) /\ AllDot(From(r, k + 1))}

TailOK(r, minWs) == TailSplits(r, minWs) # {}

\* the capture of (.+): the whitespace run is greedy
TailText(r, minWs) == From(r, SetMax(TailSplits(r, minWs)) + 1)

\* /^\[(\d{2}:\d{2}:\d{2})\s*-\s*(\d{2}:\d{2}:\d{2})\]\s*(.+)$/
M1(s) ==
    LET j == SkipSpace(s, 10)
        k == SkipSpace(s, j + 1)
    IN  IF /\ At(s, 1) = "[" /\ IsHMS(s, 2)
           /\ At(s, j) = "-" /\ IsHMS(s, k) /\ At(s, k + 8) = "]"
           /\ TailOK(From(s, k + 9), 0)
        THEN Match(SubSeq(s, 2, 9), SubSeq(s, k, k + 7),
                   TailText(From(s, k + 9), 0))
        ELSE NoMatch

\* /^(\d{2}:\d{2}:\d{2},\d{3})\s*-->\s*(\d{2}:\d{2}:\d{2},\d{3})$/
M2(s) ==
    LET j == SkipSpace(s, 13)
        k == SkipSpace(s, j + 3)
    IN  IF /\ IsSRT(s, 1)
           /\ At(s, j) = "-" /\ At(s, j + 1) = "-" /\ At(s, j + 2) = ">"
           /\ IsSRT(s, k) /\ k + 11 = Len(s)
        THEN Match(SubSeq(s, 1, 12), SubSeq(s, k, k + 11), <<>>)
        ELSE NoMatch

\* /^(\d{1,2}:\d{2})\s*-\s*(\d{1,2}:\d{2})\s*(.+)$/
M3(s) ==
    LET l1 == MSLen(s, 1)
        j  == SkipSpace(s, 1 + l1)
        k  == SkipSpace(s, j + 1)
        l2 == MSLen(s, k)
    IN  IF /\ l1 > 0 /\ At(s, j) = "-" /\ l2 > 0
           /\ TailOK(From(s, k + l2), 0)
        THEN Match(SubSeq(s, 1, l1), SubSeq(s, k, k + l2 - 1),
                   TailText(From(s, k + l2), 0))
        ELSE NoMatch

\* /^(\d+\.?\d*)\s*-\s*(\d+\.?\d*)\s*(.+)$/
\* Both numbers are greedy: the first takes the longest prefix after which
\* the rest can match, then the second does (it gives characters back when
\* nothing would be left for (.+)).
M4(s) ==
    LET Second(k) == {l2 \in NumLens(s, k) : TailOK(From(s, k + l2), 0)}
        Dash(l1)  == SkipSpace(s, 1 + l1)
        First     == {l1 \in NumLens(s, 1) :
                        /\ At(s, Dash(l1)) = "-"
                        /\ Second(SkipSpace(s, Dash(l1) + 1)) # {}}
    IN  IF First # {}
        THEN LET l1 == SetMax(First)
                 k  == SkipSpace(s, Dash(l1) + 1)
                 l2 == SetMax(Second(k))
             IN  Match(SubSeq(s, 1, l1), SubSeq(s, k, k + l2 - 1),
                       TailText(From(s, k + l2), 0))
        ELSE NoMatch

\* /^\[(\d{1,2}:\d{2})\]\s*(.+)$/
M5(s) ==
    LET l == MSLen(s, 2)
    IN  IF /\ At(s, 1) = "[" /\ l > 0 /\ At(s, 2 + l) = "]"
           /\ TailOK(From(s, 3 + l), 0)
        THEN Match(SubSeq(s, 2, 1 + l), TailText(From(s, 3 + l), 0), <<>>)
        ELSE NoMatch

\* /^\((\d{1,2}:\d{2})\)\s*(.+)$/
M6(s) ==
    LET l == MSLen(s, 2)
    IN  IF /\ At(s, 1) = "(" /\ l > 0 /\ At(s, 2 + l) = ")"
           /\ TailOK(From(s, 3 + l), 0)
        THEN Match(SubSeq(s, 2, 1 + l), TailText(From(s, 3 + l), 0), <<>>)
        ELSE NoMatch

\* /^(\d{1,2}:\d{2})\s+(.+)$/
M7(s) ==
    LET l == MSLen(s, 1)
    IN  IF l > 0 /\ TailOK(From(s, 1 + l), 1)
        THEN Match(SubSeq(s, 1, l), TailText(From(s, 1 + l), 1), <<>>)
        ELSE NoMatch

\* /^(\d+\.?\d*)\s+(.+)$/
M8(s) ==
    LET Ok == {l \in NumLens(s, 1) : TailOK(From(s, 1 + l), 1)}
    IN  IF Ok # {}
        THEN LET l == SetMax(Ok)
             IN  Match(SubSeq(s, 1, l), TailText(From(s, 1 + l), 1), <<>>)
        ELSE NoMatch

(***************************************************************************)
(* parseTranscriptFile                                                     *)
(***************************************************************************)
Entry(st, en, tx) == [start |-> st, end |-> en, text |-> tx]

\* as LineEntries, the bare `M:SS text` expression tried before the ranges
LineEntriesOnsetFirst(lines, i) ==
    LET line == lines[i]
        next == IF i + 1 <= Len(lines) THEN Trim(lines[i + 1]) ELSE <<>>
        m1 == M1(line)
        m2 == M2(line)
        m3 == M3(line)
        m4 == M4(line)
        m5 == M5(line)
        m6 == M6(line)
        m7 == M7(line)
        m8 == M8(line)
    IN  IF line = <<>> THEN <<>>
        ELSE IF m1.ok
        THEN <<Entry(hhmmssToSeconds(m1.g1), hhmmssToSeconds(m1.g2), Trim(m1.g3))>>
        ELSE IF m2.ok
        THEN IF next # <<>>
             THEN <<Entry(srtToSeconds(m2.g1), srtToSeconds(m2.g2), next)>>
             ELSE <<>>
        ELSE IF m7.ok
        THEN <<Entry(simpleToSeconds(m7.g1), Undefined, Trim(m7.g2))>>
        ELSE IF m3.ok
        THEN <<Entry(simpleToSeconds(m3.g1), simpleToSeconds(m3.g2), Trim(m3.g3))>>
        ELSE IF m4.ok
        THEN <<Entry(NumberTicks(m4.g1), NumberTicks(m4.g2), Trim(m4.g3))>>
        ELSE IF m5.ok
        THEN <<Entry(simpleToSeconds(m5.g1), Undefined, Trim(m5.g2))>>
        ELSE IF m6.ok
        THEN <<Entry(simpleToSeconds(m6.g1), Undefined, Trim(m6.g2))>>
        ELSE IF m8.ok
        THEN <<Entry(NumberTicks(m8.g1), Undefined, Trim(m8.g2))>>
        ELSE <<>>

\* One pass of the loop body for lines[i]: the entries it pushes (none or
\* one).  Every branch ends in `continue`, so the loop goes on at i + 1.
LineEntries(lines, i) ==
    LET line == lines[i]
        next == IF i + 1 <= Len(lines) THEN Trim(lines[i + 1]) ELSE <<>>
        m1 == M1(line)
        m2 == M2(line)
        m3 == M3(line)
        m4 == M4(line)
        m5 == M5(line)
        m6 == M6(line)
        m7 == M7(line)
        m8 == M8(line)
    IN  IF line = <<>> THEN <<>>
        ELSE IF m1.ok
        THEN <<Entry(hhmmssToSeconds(m1.g1), hhmmssToSeconds(m1.g2), Trim(m1.g3))>>
        ELSE IF m2.ok
        THEN IF next # <<>>
             THEN <<Entry(srtToSeconds(m2.g1), srtToSeconds(m2.g2), next)>>
             ELSE <<>>
        ELSE IF m3.ok
        THEN <<Entry(simpleToSeconds(m3.g1), simpleToSeconds(m3.g2), Trim(m3.g3))>>
        ELSE IF m4.ok
        THEN <<Entry(NumberTicks(m4.g1), NumberTicks(m4.g2), Trim(m4.g3))>>
        ELSE IF m5.ok
        THEN <<Entry(simpleToSeconds(m5.g1), Undefined, Trim(m5.g2))>>
        ELSE IF m6.ok
        THEN <<Entry(simpleToSeconds(m6.g1), Undefined, Trim(m6.g2))>>
        ELSE IF m7.ok
        THEN <<Entry(simpleToSeconds(m7.g1), Undefined, Trim(m7.g2))>>
        ELSE IF m8.ok
        THEN <<Entry(NumberTicks(m8.g1), Undefined, Trim(m8.g2))>>
        ELSE <<>>

\* text.split(/\r?\n/).map(l => l.trim())
TrimmedLines(text) ==
    LET raw == SplitLines(text)
    IN  [k \in 1..Len(raw) |-> Trim(raw[k])]

\* as ParseFrom, the loop ending at the first blank line
RECURSIVE ParseFromStopAtBlank(_, _)
ParseFromStopAtBlank(lines, i) ==
    IF i > Len(lines) \/ lines[i] = <<>> THEN <<>>
    ELSE LineEntries(lines, i) \o ParseFromStopAtBlank(lines, i + 1)

\* the loop over the lines: the list `timestamped` when it ends
RECURSIVE ParseFrom(_, _)
ParseFrom(lines, i) ==
    IF i > Len(lines) THEN <<>>
    ELSE LineEntries(lines, i) \o ParseFrom(lines, i + 1)

Timestamped(text) == ParseFrom(TrimmedLines(text), 1)

\* as SynthesizeEnds, the last entry's end left at its start
SynthesizeEndsNoFallback(ts) ==
    IF Len(ts) > 0 /\ ts[1].end = Undefined
    THEN [k \in 1..Len(ts) |->
            [ts[k] EXCEPT !.end = IF k + 1 <= Len(ts)
                                  THEN ts[k + 1].start
                                  ELSE ts[k].start]]
    ELSE ts

\* as SynthesizeEnds, without the look at the first entry's end
SynthesizeEndsAlways(ts) ==
    [k \in 1..Len(ts) |->
        [ts[k] EXCEPT !.end = IF k + 1 <= Len(ts)
                              THEN ts[k + 1].start
                              ELSE ts[k].start + 3 * TicksPerSecond]]

\* the end-time pass over `timestamped`
SynthesizeEnds(ts) ==
    IF Len(ts) > 0 /\ ts[1].end = Undefined
    THEN [k \in 1..Len(ts) |->
            [ts[k] EXCEPT !.end = IF k + 1 <= Len(ts)
                                  THEN ts[k + 1].start
                                  ELSE ts[k].start + 3 * TicksPerSecond]]
    ELSE ts

parseTranscriptFile(text) == SynthesizeEnds(Timestamped(text))

(***************************************************************************)
(* extractSegments                                                         *)
(***************************************************************************)
\* as FloorIndex, rounding to the nearest index
FloorIndexRound(t, sr) == (2 * t * sr + TicksPerSecond) \div (2 * TicksPerSecond)

\* Math.floor(t * sr) for a time t >= 0 held in ticks
FloorIndex(t, sr) == (t * sr) \div TicksPerSecond

Max2(a, b) == IF a >= b THEN a ELSE b

Min2(a, b) == IF a <= b THEN a ELSE b

\* const start = Math.max(0, Math.floor(seg.start * sr))
StartIndex(seg, sr) == Max2(0, FloorIndex(seg.start, sr))

\* const end = Math.min(y.length, Math.floor(seg.end * sr)); undefined * sr
\* is NaN, and so are its floor and the minimum
EndIndex(y, seg, sr) ==
    IF seg.end = Undefined THEN NaN
    ELSE Min2(Len(y), FloorIndex(seg.end, sr))

\* end <= start: false when end is NaN
SkipSegment(y, seg, sr) ==
    /\ EndIndex(y, seg, sr) # NaN
    /\ EndIndex(y, seg, sr) <= StartIndex(seg, sr)

\* y.slice(start, end) of a typed array: NaN converts to 0, both indices
\* are clamped to the length, and an empty range gives an empty array
Slice(y, start, end) ==
    LET e == IF end = NaN THEN 0 ELSE Min2(end, Len(y))
        b == Min2(start, Len(y))
    IN  IF e > b THEN SubSeq(y, b + 1, e) ELSE <<>>

\* a duration that is the end alone
DurationFromZero(seg) == seg.end

\* seg.end - seg.start
Duration(seg) == IF seg.end = Undefined THEN NaN ELSE seg.end - seg.start

(***************************************************************************)
(* The container encoder.  A sample is held as the whole number of        *)
(* 1/SampleUnit steps it amounts to, so 0.5 is SampleUnit / 2 and full    *)
(* scale is SampleUnit; a byte is a number in 0..255, a blob the sequence *)
(* of its bytes.                                                           *)
(***************************************************************************)
SampleUnit == 65536

\* the quotient a / b (b > 0) with its fraction dropped, as the integer
\* conversions of DataView setters do
TruncDiv(a, b) ==
    IF a >= 0 THEN a \div b
    ELSE (a \div b) + (IF a % b = 0 THEN 0 ELSE 1)

\* the Int16 a DataView stores for a whole number: modulo 2^16
ToInt16(n) == ((n + 32768) % 65536) - 32768

\* Math.max(-1, Math.min(1, float32Array[i]))
ClampSample(s) == Max2(-SampleUnit, Min2(SampleUnit, s))

\* the value setInt16 stores for s < 0 ? s * 0x8000 : s * 0x7FFF
PCM16(s) ==
    LET c == ClampSample(s)
    IN  ToInt16(TruncDiv(IF c < 0 THEN c * 32768 ELSE c * 32767, SampleUnit))

\* the two bytes of setInt16(offset, v, true), low byte first
Int16LE(v) == LET u == v % 65536 IN <<u % 256, u \div 256>>

\* getInt16(offset, true), offset counted from 0
GetInt16LE(bytes, offset) ==
    LET u == bytes[offset + 1] + 256 * bytes[offset + 2]
    IN  IF u >= 32768 THEN u - 65536 ELSE u

\* the bytes of the DataView floatTo16BitPCM returns
floatTo16BitPCM(float32Array) ==
    [k \in 1..(2 * Len(float32Array)) |->
        Int16LE(PCM16(float32Array[(k + 1) \div 2]))[2 - (k % 2)]]

\* view.setUint32(offset, v, true)
Uint32LE(v) ==
    <<v % 256, (v \div 256) % 256, (v \div 65536) % 256,
      (v \div 16777216) % 256>>

\* view.setUint16(offset, v, true)
Uint16LE(v) == <<v % 256, (v \div 256) % 256>>

\* s.charCodeAt(i) for the characters of the four chunk tags
CharCode(c) ==
    CASE c = "R" -> 82  [] c = "I" -> 73  [] c = "F" -> 70
      [] c = "W" -> 87  [] c = "A" -> 65  [] c = "V" -> 86  [] c = "E" -> 69
      [] c = "f" -> 102 [] c = "m" -> 109 [] c = "t" -> 116 [] c = " " -> 32
      [] c = "d" -> 100 [] c = "a" -> 97

\* writeString(s)
WriteString(s) == [k \in 1..Len(s) |-> CharCode(s[k])]

\* a chunk size that counts the whole file
RiffChunkSizeWholeFile(dataLen) == 44 + dataLen

\* writeUint32(36 + dataLen)
RiffChunkSize(dataLen) == 36 + dataLen

\* encodeWAV(samples, sampleRate): the bytes of the Blob
encodeWAV(samples, sr) ==
    LET bytesPerSample == 2
        numChannels    == 1
        blockAlign     == numChannels * bytesPerSample
        byteRate       == sr * blockAlign
        dataLen        == Len(samples) * bytesPerSample
        pcm            == floatTo16BitPCM(samples)
    IN  WriteString(<<"R", "I", "F", "F">>) \o Uint32LE(RiffChunkSize(dataLen))
        \o WriteString(<<"W", "A", "V", "E">>)
        \o WriteString(<<"f", "m", "t", " ">>) \o Uint32LE(16)
        \o Uint16LE(1) \o Uint16LE(numChannels)
        \o Uint32LE(sr) \o Uint32LE(byteRate)
        \o Uint16LE(blockAlign) \o Uint16LE(16)
        \o WriteString(<<"d", "a", "t", "a">>) \o Uint32LE(dataLen)
        \o [k \in 1..dataLen |->
                Int16LE(GetInt16LE(pcm, 2 * ((k - 1) \div 2)))[2 - (k % 2)]]

\* ctx.decodeAudioData on a 16-bit PCM container of one channel: sample k
\* is the k-th Int16 of the data chunk divided by 32768
decodeAudioData(blob) ==
    [k \in 1..((Len(blob) - 44) \div 2) |->
        GetInt16LE(blob, 44 + 2 * (k - 1)) * (SampleUnit \div 32768)]

(***************************************************************************)
(* Filenames.  A character outside ASCII is written as its code point,    *)
(* "U+00E9" for e-acute; like every character it is one element of the    *)
(* sequence that stands for the string.                                    *)
(***************************************************************************)
Letters ==
    {"a", "b", "c", "d", "e", "f", "g", "h", "i", "j", "k", "l", "m",
     "n", "o", "p", "q", "r", "s", "t", "u", "v", "w", "x", "y", "z",
     "A", "B", "C", "D", "E", "F", "G", "H", "I", "J", "K", "L", "M",
     "N", "O", "P", "Q", "R", "S", "T", "U", "V", "W", "X", "Y", "Z"}

\* \w
IsWord(c) == c \in Letters \/ IsDigit(c) \/ c = "_"

\* the NFKD form of one character: a precomposed letter gives its base
\* letter and a combining mark, a no-break space gives a space
NFKDChar(c) ==
    CASE c = "U+00E9" -> <<"e", "U+0301">>
      [] c = "U+00F1" -> <<"n", "U+0303">>
      [] c = "U+00A0" -> <<" ">>
      [] OTHER        -> <<c>>

\* text.normalize('NFKD')
RECURSIVE NFKD(_)
NFKD(s) == IF s = <<>> THEN <<>> ELSE NFKDChar(Head(s)) \o NFKD(Tail(s))

\* [<>:"/\\|?*\x00-\x1f]
IsReserved(c) ==
    c \in {"<", ">", ":", "\"", "/", "\\", "|", "?", "*", "\t", "\n", "\r"}

IsNotReserved(c) == ~IsReserved(c)

\* [^\w\s\-_.]
IsOther(c) == ~(IsWord(c) \/ IsSpace(c) \/ c = "-" \/ c = "_" \/ c = ".")

\* [\-\s_]
IsDash(c) == c = "-" \/ IsSpace(c) \/ c = "_"

\* [_\.]
IsEdge(c) == c = "_" \/ c = "."

\* replace(/[\-\s_]+/g, '_') from index i on: every run becomes one "_"
RECURSIVE CollapseFrom(_, _)
CollapseFrom(s, i) ==
    IF i > Len(s) THEN <<>>
    ELSE IF ~IsDash(s[i]) THEN <<s[i]>> \o CollapseFrom(s, i + 1)
    ELSE IF i > 1 /\ IsDash(s[i - 1]) THEN CollapseFrom(s, i + 1)
    ELSE <<"_">> \o CollapseFrom(s, i + 1)

\* replace(/^[_\.]+|[_\.]+$/g, '')
StripEdges(s) ==
    LET inner == {k \in 1..Len(s) : ~IsEdge(s[k])}
    IN  IF inner = {} THEN <<>>
        ELSE SubSeq(s, CHOOSE k \in inner : \A j \in inner : k <= j,
                       CHOOSE k \in inner : \A j \in inner : k >= j)

\* s.slice(0, n) of a string
Prefix(s, n) == SubSeq(s, 1, Min2(n, Len(s)))

safeFilename(text) ==
    LET s1 == SelectSeq(NFKD(text), IsNotReserved)
        s2 == [k \in 1..Len(s1) |-> IF IsOther(s1[k]) THEN "_" ELSE s1[k]]
        s3 == StripEdges(CollapseFrom(s2, 1))
        s4 == IF Len(s3) < 2
              THEN <<"a", "u", "d", "i", "o", "_",
                     "s", "e", "g", "m", "e", "n", "t">>
              ELSE s3
    IN  Prefix(s4, 25)

\* String(n) for a whole number n >= 0
RECURSIVE DecimalString(_)
DecimalString(n) ==
    IF n < 10 THEN <<Digits[n + 1]>>
    ELSE DecimalString(n \div 10) \o <<Digits[(n % 10) + 1]>>

\* a padStart that pads nothing
PadStartNone(s, n, c) == s

\* s.padStart(n, c)
PadStart(s, n, c) ==
    IF Len(s) >= n THEN s ELSE [k \in 1..(n - Len(s)) |-> c] \o s

\* a name numbered on from the count the page shows for the run before
FilenameCounting(number, text) ==
    <<"s", "e", "g", "m", "e", "n", "t", "_">>
    \o PadStart(DecimalString(number + mTotal), 3, "0")
    \o <<"_">> \o safeFilename(Prefix(text, 30))
    \o <<".", "w", "a", "v">>

\* `segment_${String(i + 1).padStart(3, '0')}_${safeFilename(...)}.wav`,
\* with number = i + 1
Filename(number, text) ==
    <<"s", "e", "g", "m", "e", "n", "t", "_">>
    \o PadStart(DecimalString(number), 3, "0")
    \o <<"_">> \o safeFilename(Prefix(text, 30))
    \o <<".", "w", "a", "v">>

\* the object pushed for segments[i]; `number` is the i + 1 of the filename
\* and `samples` the slice handed to encodeWAV
Clip(y, sr, segments, i) ==
    LET seg == segments[i]
        cut == Slice(y, StartIndex(seg, sr), EndIndex(y, seg, sr))
    IN  [number     |-> i,
         samples    |-> cut,
         filename   |-> Filename(i, seg.text),
         blob       |-> encodeWAV(cut, sr),
         text       |-> seg.text,
         start_time |-> seg.start,
         end_time   |-> seg.end,
         duration   |-> Duration(seg)]

\* the loop of extractSegments from segment i on: the clips pushed
RECURSIVE ExtractFrom(_, _, _, _)
ExtractFrom(y, sr, segments, i) ==
    IF i > Len(segments) THEN <<>>
    ELSE (IF SkipSegment(y, segments[i], sr) THEN <<>>
          ELSE <<Clip(y, sr, segments, i)>>)
         \o ExtractFrom(y, sr, segments, i + 1)

extractSegments(y, sr, segments) == ExtractFrom(y, sr, segments, 1)

\* the lines extractSegments logs: one per skipped segment
RECURSIVE SkipLog(_, _, _, _)
SkipLog(y, sr, segments, i) ==
    IF i > Len(segments) THEN <<>>
    ELSE (IF SkipSegment(y, segments[i], sr)
          THEN <<<<"Skipped invalid timing for segment", i>>>>
          ELSE <<>>)
         \o SkipLog(y, sr, segments, i + 1)

(***************************************************************************)
(* The archive.  A JSZip object is its table of entries, in the order     *)
(* they were added; the manifest is the list of the lines written to it.  *)
(***************************************************************************)
\* x.toFixed(2) of a time x >= 0: x to the nearest hundredth, two decimals.
\* (For a time that lies midway between two hundredths the result follows
\* the double nearest to it; no time drawn here does.)
ToFixed2(t) ==
    LET c == (t + 5) \div 10
    IN  DecimalString(c \div 100) \o <<".">>
        \o <<Digits[((c % 100) \div 10) + 1], Digits[(c % 10) + 1]>>

\* zip.file(name, data): a new entry, or new data for the entry of that name
ZipFile(z, name, data) ==
    IF \E k \in 1..Len(z) : z[k].name = name
    THEN [k \in 1..Len(z) |->
            IF z[k].name = name THEN [name |-> name, data |-> data] ELSE z[k]]
    ELSE Append(z, [name |-> name, data |-> data])

\* manifest lines that number the entries from 0
ManifestEntryFromZero(files, idx) ==
    LET f == files[idx]
    IN  <<<<"Segment", idx - 1, f.filename>>,
          <<"Text", f.text>>,
          <<"Start", ToFixed2(f.start_time)>>,
          <<"End", ToFixed2(f.end_time)>>,
          <<"Duration", ToFixed2(f.duration)>>>>

\* the lines added to `meta` for files[idx]
ManifestEntry(files, idx) ==
    LET f == files[idx]
    IN  <<<<"Segment", idx, f.filename>>,
          <<"Text", f.text>>,
          <<"Start", ToFixed2(f.start_time)>>,
          <<"End", ToFixed2(f.end_time)>>,
          <<"Duration", ToFixed2(f.duration)>>>>

\* the forEach of makeZip from files[idx] on, applied to the pair of the
\* entry table and the manifest
RECURSIVE ZipFrom(_, _, _)
ZipFrom(acc, files, idx) ==
    IF idx > Len(files) THEN acc
    ELSE ZipFrom([zip  |-> ZipFile(acc.zip, files[idx].filename, files[idx].blob),
                  meta |-> acc.meta \o ManifestEntry(files, idx)],
                 files, idx + 1)

MetadataName == <<"m", "e", "t", "a", "d", "a", "t", "a", ".", "t", "x", "t">>

\* undefined.toFixed throws
ManifestThrows(files) ==
    \E k \in 1..Len(files) : files[k].end_time = Undefined

makeZip(files) ==
    LET acc == ZipFrom([zip  |-> <<>>,
                        meta |-> <<<<"Audio Segmentation Results">>>>],
                       files, 1)
    IN  ZipFile(acc.zip, MetadataName, acc.meta)

(***************************************************************************)
(* Inputs.  Transcript files are built from lines; every builder below     *)
(* writes the characters a file of that layout holds.                      *)
(***************************************************************************)
MaxLines == 3

MaxSegLines == 2

MaxSamples == 5

D2(n) == <<Digits[(n \div 10) + 1], Digits[(n % 10) + 1]>>

D3(n) == <<Digits[(n \div 100) + 1]>> \o D2(n % 100)

Dec(n) == IF n < 10 THEN <<Digits[n + 1]>> ELSE D2(n)

HMS(a) == D2(a[1]) \o <<":">> \o D2(a[2]) \o <<":">> \o D2(a[3])

SRT(a, ms) == HMS(a) \o <<",">> \o D3(ms)

MSS(a) == Dec(a[1]) \o <<":">> \o D2(a[2])

RECURSIVE JoinLines(_)
JoinLines(ls) ==
    IF Len(ls) = 0 THEN <<>>
    ELSE IF Len(ls) = 1 THEN ls[1]
    ELSE ls[1] \o <<"\n">> \o JoinLines(Tail(ls))

SeqsUpTo(S, n) == UNION {[1..k -> S] : k \in 0..n}

\* lines of every layout, degenerate ranges, unmatched and blank lines
SampleLines ==
    {<<"[", "0", "0", ":", "0", "0", ":", "0", "5", " ", "-", " ", "0", "0", ":", "0", "0", ":", "0", "8", "]", " ", "h", "e", "l", "l", "o", " ", "w", "o", "r", "l", "d">>,
     <<"[", "0", "0", ":", "0", "0", ":", "0", "9", " ", "-", " ", "0", "0", ":", "0", "0", ":", "0", "9", "]", " ", "h", "i">>,
     <<"0", "0", ":", "0", "0", ":", "0", "1", ",", "0", "0", "0", " ", "-", "-", ">", " ", "0", "0", ":", "0", "0", ":", "0", "4", ",", "5", "0", "0">>,
     <<"1", ":", "0", "5", " ", "-", " ", "1", ":", "1", "0", " ", "h", "i">>,
     <<"1", ":", "1", "0", " ", "-", " ", "0", ":", "0", "5", " ", "h", "i">>,
     <<"1", ".", "5", " ", "-", " ", "2", ".", "2", "5", " ", "h", "i">>,
     <<"[", "0", ":", "0", "5", "]", " ", "h", "i">>,
     <<"(", "0", ":", "0", "9", ")", " ", "h", "i">>,
     <<"1", ":", "0", "5", " ", "g", "o">>,
     <<"5", " ", "p", "m">>,
     <<" ", "1", "2", " ", "h", "i", " ", "\r">>,
     <<"h", "e", "l", "l", "o">>,
     <<" ", " ">>,
     <<>>}

\* the two scenarios the design document spells out
SynthesisExample == JoinLines(<<<<"0", " ", "a">>,
                              <<"5", " ", "b">>,
                              <<"9", " ", "c">>>>)

MixedExample ==
    JoinLines(<<<<"[", "0", "0", ":", "0", "0", ":", "0", "5", " ", "-", " ", "0", "0", ":", "0", "0", ":", "0", "8", "]", " ", "h", "e", "l", "l", "o", " ", "w", "o", "r", "l", "d">>,
                <<"1", ":", "0", "5", " ", "-", " ", "1", ":", "1", "0", " ", "h", "i">>,
                <<"h", "e", "l", "l", "o">>,
                <<"[", "0", ":", "0", "5", "]", " ", "h", "i">>,
                <<"9", " ", "h", "i">>>>)

ParseTranscripts ==
    {JoinLines(ls) : ls \in SeqsUpTo(SampleLines, MaxLines)}
        \cup {SynthesisExample, MixedExample}

\* numeric seconds, whole and fractional, inside and outside the buffers
Seconds == {<<"0">>, <<"1", ".", "5">>, <<"7">>}

RangeLine(a, b) == a \o <<" ", "-", " ">> \o b \o <<" ", "x">>

OnsetLine(a) == a \o <<" ", "y">>

ExtractLines ==
    {RangeLine(a, b) : a \in Seconds, b \in Seconds}
        \cup {OnsetLine(a) : a \in Seconds}

ExtractTranscripts ==
    {JoinLines(ls) : ls \in SeqsUpTo(ExtractLines, MaxSegLines)}

\* decoded audio: every sample differs, so a slice shows where it was cut
Ramp(n) == [k \in 1..n |-> 10 * k - 30]

Buffers == {Ramp(n) : n \in 1..MaxSamples}

Rates == {1, 2}

\* a file that decodes to samples y at rate sr
Decodable(y, sr) == [ok |-> TRUE, samples |-> y, sr |-> sr]

\* a file decodeAudioData rejects
Undecodable == [ok |-> FALSE]

AudioFiles == {Decodable(y, sr) : y \in Buffers, sr \in Rates} \cup {Undecodable}

\* sample values for the encoder: beyond full scale on both sides, full
\* scale, midway values, values whose scaled product has a fraction, zero
SampleValues ==
    {-80000, -SampleUnit, -32769, -3, 0, 3, 6554, 32768, 49153, SampleUnit,
     80000}

MaxEncode == 2

EncodeRates == {8000, 16000, 44100}

EncodeArgs ==
    {[samples |-> y, sampleRate |-> r] :
        y \in SeqsUpTo(SampleValues, MaxEncode), r \in EncodeRates}

\* segment texts for the sanitizer: every short text over letters, digits,
\* separators, punctuation, a reserved character and an accented letter,
\* and texts that reach the length limits
NameChars == {"a", "7", "_", ".", "-", " ", "!", ":", "U+00E9"}

MaxName == 3

Repeat(c, n) == [k \in 1..n |-> c]

LongTexts ==
    {Repeat("a", 25), Repeat("a", 26), Repeat("a", 40),
     Repeat("a", 24) \o <<" ", "b">>,
     Repeat("a", 24) \o <<".", "b">>,
     Repeat("a", 23) \o <<"!", "!", "b">>,
     Repeat("a", 29) \o <<"!", "b">>,
     <<"h", "e", "l", "l", "o", " ", "w", "o", "r", "l", "d">>,
     <<"H", "i", ",", " ", "t", "h", "e", "r", "e", "!">>}

NameTexts == SeqsUpTo(NameChars, MaxName) \cup LongTexts

\* single lines of the colon layouts, over field values below and above 59
Fields == {0, 7, 60, 99}

HMSTimes == Fields \X Fields \X Fields

MSTimes == Fields \X Fields

Millis == {0, 5, 999}

Texts == {<<"h", "i">>, <<"5", " ", "p", "m">>,
          <<"1", ":", "0", "5", " ", "g", "o">>}

Gaps == {<<" ", "-", " ">>, <<"-">>, <<" ", " ", "-">>}

BracketRange(a, b, t) ==
    <<"[">> \o HMS(a) \o <<" ", "-", " ">> \o HMS(b) \o <<"]", " ">> \o t

SubtitleBlock(a, am, b, bm, t) ==
    SRT(a, am) \o <<" ", "-", "-", ">", " ">> \o SRT(b, bm) \o <<"\n">> \o t

SimpleRange(a, g, b, t) == MSS(a) \o g \o MSS(b) \o <<" ">> \o t

BracketOnset(a, t) == <<"[">> \o MSS(a) \o <<"]", " ">> \o t

ParenOnset(a, t) == <<"(">> \o MSS(a) \o <<")", " ">> \o t

BareOnset(a, t) == MSS(a) \o <<" ">> \o t

HMSEnds == {<<0, 0, 8>>, <<99, 60, 7>>}

MSEnds == {<<0, 8>>, <<99, 60>>}

LineTranscripts ==
    {BracketRange(a, b, <<"h", "i">>) : a \in HMSTimes, b \in HMSEnds}
        \cup {SubtitleBlock(a, am, <<0, 0, 8>>, 500, <<"h", "i">>) :
                a \in HMSTimes, am \in Millis}
        \cup {SimpleRange(a, g, b, t) :
                a \in MSTimes, g \in Gaps, b \in MSEnds, t \in Texts}
        \cup {BracketOnset(a, t) : a \in MSTimes, t \in Texts}
        \cup {ParenOnset(a, t) : a \in MSTimes, t \in Texts}
        \cup {BareOnset(a, t) : a \in MSTimes, t \in Texts}

\* the end-to-end scenario of the design document: one bracketed line and
\* twenty seconds of mono audio at 16000 Hz, among a few other lines and
\* files
HelloWorld == <<"h", "e", "l", "l", "o", " ", "w", "o", "r", "l", "d">>

EndToEndLine == BracketRange(<<0, 0, 5>>, <<0, 0, 8>>, HelloWorld)

EndToEndTranscripts ==
    {BracketRange(a, b, t) :
        a \in {<<0, 0, 5>>, <<0, 0, 7>>, <<0, 0, 19>>},
        b \in {<<0, 0, 8>>},
        t \in {HelloWorld, <<"H", "i", ",", " ", "t", "h", "e", "r", "e", "!">>,
                <<"g", "o">>, <<"o", "k", "a", "y">>}}

\* a run in which a second audio file is selected
ReloadTranscripts == {JoinLines(<<l>>) : l \in ExtractLines}

\* audioFile before any selection (null)
NoFile == [ok |-> FALSE, none |-> TRUE]

\* the audio files selected in one run
MaxLoads == 2

\* the downloads whose threads run, the entries created while cleanup
\* passes run, the half hours that pass and the /api/cleanup requests
\* served in one run of the server
MaxDownloads == 1

MaxEntries == 2

MaxTicks == 3

MaxCleanupCalls == 1

ReloadFiles ==
    {Decodable(Ramp(3), 1), Decodable(Ramp(MaxSamples), 2), Undecodable}

\* decoded mono audio of n samples
Tone(n) == [k \in 1..n |-> (k % 7) * 1000]

EndToEndArgs ==
    {[text |-> t, seconds |-> d, sampleRate |-> r] :
        t \in EndToEndTranscripts, d \in {1, 6, 20}, r \in {8000, 16000}}

(***************************************************************************)
(* Transcript export (the server's format_text).  A snippet is            *)
(* [text, start] with start in ticks.                                      *)
(***************************************************************************)
\* the lines format_text collects: one per snippet with a non-empty text,
\* f"[{m:02d}:{sec:02d}] {s['text']}" with m, sec = divmod(int(start), 60)
RECURSIVE FormatLines(_)
FormatLines(snippets) ==
    IF snippets = <<>> THEN <<>>
    ELSE LET sn   == Head(snippets)
             secs == sn.start \div TicksPerSecond
             m    == secs \div 60
             sec  == secs % 60
         IN  (IF sn.text # <<>>
              THEN <<<<"[">> \o PadStart(DecimalString(m), 2, "0") \o <<":">>
                     \o PadStart(DecimalString(sec), 2, "0") \o <<"]", " ">>
                     \o sn.text>>
              ELSE <<>>)
             \o FormatLines(Tail(snippets))

\* "\n".join(lines)
format_text(snippets) == JoinLines(FormatLines(snippets))

\* snippets below a minute, above it, just below and from 100 minutes on,
\* with texts that begin like a timestamp, and one without text
ExportStarts == {0, 5900, 65000, 3599500, 5999000, 6000000, 6005250}

ExportTexts ==
    {<<>>, <<"h", "i">>, <<"5", " ", "p", "m">>,
     <<"1", ":", "0", "5", " ", "g", "o">>,
     <<"[", "0", ":", "0", "9", "]", " ", "h", "i">>}

MaxSnippets == 2

ExportArgs ==
    SeqsUpTo({[text |-> t, start |-> st] : t \in ExportTexts, st \in ExportStarts},
             MaxSnippets)

(***************************************************************************)
(* The page: its state after loading, and its handlers                     *)
(***************************************************************************)
PageInit ==
    /\ txt = <<>>
    /\ timestamped = <<>>
    /\ parsedSegments = <<>>
    /\ audioBuffer = <<>>
    /\ sampleRate = 0
    /\ extractedSegments = <<>>
    /\ segmentLog = <<>>
    /\ resultsStatus = "No segments yet."
    /\ zipDisabled = TRUE
    /\ mTotal = 0
    /\ zip = <<>>
    /\ done = {}
    /\ audioFile = NoFile
    /\ pending = <<>>

\* the server after start-up: no download, the cleanup thread asleep
ServerInit ==
    /\ download_status = <<>>
    /\ clock = 0
    /\ cleanup_thread = [pc |-> "sleep", wake |-> SleepSeconds]
    /\ cleanup_request = [pc |-> "idle", served |-> 0, response |-> None]
    /\ threads = <<>>

Init ==
    /\ PageInit
    /\ ServerInit
    /\ arg = <<>>
    /\ ret = [stage |-> "none"]

\* #transcriptFile change, with a file whose content is one of `files`.
\* When the parser finds nothing the handler stores {_auto: true, lines};
\* that object has no length and nothing reads its fields, so it is held
\* as the empty list.
TranscriptHandler(files) ==
    /\ \E t \in files :
        /\ txt' = t
        /\ timestamped' = Timestamped(t)
        /\ parsedSegments' = LET segs == parseTranscriptFile(t)
                             IN  IF Len(segs) > 0 THEN segs ELSE <<>>
    /\ segmentLog' = Append(segmentLog, <<"Reading transcript">>)
    /\ UNCHANGED <<audioBuffer, sampleRate, extractedSegments, resultsStatus,
                   zipDisabled, mTotal, zip, audioFile, pending, ServerVars,
                   arg, ret>>

\* the first selection of a transcript file
TranscriptFileChange(files) ==
    /\ "transcript" \notin done
    /\ TranscriptHandler(files)
    /\ done' = done \cup {"transcript"}

\* the same transcript file selected once more
TranscriptFileChangeAgain ==
    /\ "transcript" \in done /\ "transcript again" \notin done
    /\ TranscriptHandler({txt})
    /\ done' = done \cup {"transcript again"}

\* a handler whose load writes the decoded samples into the storage the
\* clips were cut from: every clip is cut again from the new samples
AudioHandlerReusingBuffer(files) ==
    /\ \E f \in files :
        /\ audioFile' = f
        /\ IF f.ok
           THEN /\ sampleRate' = f.sr
                /\ audioBuffer' = f.samples
                /\ extractedSegments' =
                       [c \in 1..Len(extractedSegments) |->
                           [extractedSegments[c] EXCEPT
                               !.samples = Slice(f.samples, 0, Len(@))]]
                /\ segmentLog' =
                       segmentLog \o <<<<"Loading audio">>, <<"Loaded">>>>
           ELSE /\ segmentLog' =
                       segmentLog
                       \o <<<<"Loading audio">>, <<"Audio load failed">>>>
                /\ UNCHANGED <<audioBuffer, sampleRate, extractedSegments>>
    /\ UNCHANGED <<txt, timestamped, parsedSegments, resultsStatus,
                   zipDisabled, mTotal, zip, pending, ServerVars, arg, ret>>

\* the #audioInput change handler on one of `files`.  A file that decodes
\* (to one channel) has loadAudio store its sample rate and its samples;
\* when decodeAudioData rejects, loadAudio throws before it stores anything
\* and the handler logs the failure.
AudioHandler(files) ==
    /\ \E f \in files :
        /\ audioFile' = f
        /\ IF f.ok
           THEN /\ sampleRate' = f.sr
                /\ audioBuffer' = f.samples
                /\ segmentLog' =
                       segmentLog \o <<<<"Loading audio">>, <<"Loaded">>>>
           ELSE /\ segmentLog' =
                       segmentLog
                       \o <<<<"Loading audio">>, <<"Audio load failed">>>>
                /\ UNCHANGED <<audioBuffer, sampleRate>>
    /\ UNCHANGED <<txt, timestamped, parsedSegments, extractedSegments,
                   resultsStatus, zipDisabled, mTotal, zip, pending,
                   ServerVars, arg, ret>>

\* the first selection of an audio file
AudioInputChange(files) ==
    /\ "audio" \notin done
    /\ AudioHandler(files)
    /\ done' = done \cup {"audio"}

\* the selection of another audio file
AudioInputChangeAgain(files) ==
    /\ "audio" \in done /\ "audio again" \notin done
    /\ AudioHandler(files)
    /\ done' = done \cup {"audio again"}

\* the loads started so far: one `Loading audio` line is logged for each
Loads ==
    Cardinality({k \in 1..Len(segmentLog) :
                    segmentLog[k][1] = "Loading audio"})

\* the #audioInput change handler up to the first await of loadAudio: the
\* selected file becomes audioFile at once, its decoding is under way.  At
\* most MaxLoads files are selected in a run.
AudioSelect(files) ==
    /\ Loads < MaxLoads
    /\ \E f \in files :
        /\ audioFile' = f
        /\ pending' = Append(pending, f)
    /\ segmentLog' = Append(segmentLog, <<"Loading audio">>)
    /\ UNCHANGED <<txt, timestamped, parsedSegments, audioBuffer, sampleRate,
                   extractedSegments, resultsStatus, zipDisabled, mTotal, zip,
                   done, ServerVars, arg, ret>>

\* the rest of loadAudio and of the handler for one of the files under way,
\* whichever decodeAudioData settles first: sampleRate and audioBuffer are
\* stored, or the rejection is logged
DecodeSettle ==
    /\ \E i \in 1..Len(pending) :
        /\ pending' = SubSeq(pending, 1, i - 1)
                       \o SubSeq(pending, i + 1, Len(pending))
        /\ IF pending[i].ok
           THEN /\ sampleRate' = pending[i].sr
                /\ audioBuffer' = pending[i].samples
                /\ segmentLog' = Append(segmentLog, <<"Loaded">>)
           ELSE /\ segmentLog' = Append(segmentLog, <<"Audio load failed">>)
                /\ UNCHANGED <<audioBuffer, sampleRate>>
    /\ UNCHANGED <<txt, timestamped, parsedSegments, extractedSegments,
                   resultsStatus, zipDisabled, mTotal, zip, done, audioFile,
                   ServerVars, arg, ret>>

\* f.end_time.toFixed(2) throws on a clip whose end_time is undefined
RenderThrows(clips) == \E k \in 1..Len(clips) : clips[k].end_time = Undefined

\* the #processBtn click handler; `run` names the run
ProcessHandler(run) ==
    /\ IF audioBuffer = <<>> \/ sampleRate = 0 \/ Len(parsedSegments) = 0
       THEN UNCHANGED vars
       ELSE LET clips == extractSegments(audioBuffer, sampleRate, parsedSegments)
            IN  /\ extractedSegments' = clips
                /\ segmentLog' =
                       segmentLog
                       \o <<<<"Starting segmentation">>, <<"Extracting segments">>>>
                       \o SkipLog(audioBuffer, sampleRate, parsedSegments, 1)
                       \o <<<<"Extracted", Len(clips)>>>>
                       \o (IF RenderThrows(clips) THEN <<<<"Error">>>> ELSE <<>>)
                /\ resultsStatus' = IF RenderThrows(clips)
                                    THEN "Processing failed."
                                    ELSE "Segments ready."
                /\ zipDisabled' = IF RenderThrows(clips) THEN zipDisabled ELSE FALSE
                /\ mTotal' = Len(clips)
                /\ done' = done \cup {run}
                /\ UNCHANGED <<txt, timestamped, parsedSegments, audioBuffer,
                               sampleRate, zip, audioFile, pending,
                               ServerVars, arg, ret>>

\* the first click on #processBtn
ProcessClick ==
    /\ "process" \notin done
    /\ ProcessHandler("process")

\* another click on #processBtn after a run
ProcessClickAgain ==
    /\ "process" \in done /\ "process again" \notin done
    /\ ProcessHandler("process again")

\* #resetBtn click: clearSegmentationUI, then both file inputs are emptied.
\* audioFile is not reset.
clearSegmentationUI ==
    /\ parsedSegments' = <<>>
    /\ extractedSegments' = <<>>
    /\ audioBuffer' = <<>>
    /\ sampleRate' = 0
    /\ segmentLog' = <<>>
    /\ mTotal' = 0
    /\ resultsStatus' = "No segments yet."
    /\ zipDisabled' = TRUE

ResetClick ==
    /\ "reset" \notin done
    /\ clearSegmentationUI
    /\ txt' = <<>>
    /\ done' = done \cup {"reset"}
    /\ UNCHANGED <<timestamped, zip, audioFile, pending, ServerVars, arg, ret>>

\* #downloadZipBtn click: possible while the button is enabled.  The button
\* is disabled while makeZip runs and enabled again after the download; if
\* makeZip throws it stays disabled.
DownloadZipClick ==
    /\ "download" \notin done
    /\ ~zipDisabled
    /\ IF Len(extractedSegments) = 0
       THEN UNCHANGED vars
       ELSE /\ IF ManifestThrows(extractedSegments)
               THEN zipDisabled' = TRUE /\ UNCHANGED zip
               ELSE zip' = makeZip(extractedSegments) /\ UNCHANGED zipDisabled
            /\ done' = done \cup {"download"}
            /\ UNCHANGED <<txt, timestamped, parsedSegments, audioBuffer,
                           sampleRate, extractedSegments, segmentLog,
                           resultsStatus, mTotal, audioFile, pending,
                           ServerVars, arg, ret>>

\* the transcript handler alone, over files of every layout
NextParse == TranscriptFileChange(ParseTranscripts)

SpecParse == Init /\ [][NextParse]_vars

\* the transcript handler alone, over single lines of the colon layouts
NextLine == TranscriptFileChange(LineTranscripts)

SpecLine == Init /\ [][NextLine]_vars

\* the whole run: a transcript, audio files, Process, the download
Next ==
    \/ TranscriptFileChange(ExtractTranscripts)
    \/ AudioInputChange(AudioFiles)
    \/ ProcessClick
    \/ DownloadZipClick

Spec == Init /\ [][Next]_vars

PageVars == <<txt, timestamped, parsedSegments, audioBuffer, sampleRate,
              extractedSegments, segmentLog, resultsStatus, zipDisabled,
              mTotal, zip, done, audioFile, pending>>

\* the pipeline called on its own: a transcript is parsed, the segments are
\* cut from `seconds` seconds of mono audio and encoded; of each clip the
\* name, the duration, the size of the blob and its 44 header bytes are kept
InitEndToEnd ==
    /\ PageInit
    /\ ServerInit
    /\ arg \in EndToEndArgs
    /\ ret = [stage |-> "new"]

ClipFacts(f) ==
    [filename |-> f.filename,
     duration |-> f.duration,
     size     |-> Len(f.blob),
     header   |-> SubSeq(f.blob, 1, 44)]

PipelineCall ==
    /\ ret.stage = "new"
    /\ ret' = LET y     == Tone(arg.seconds * arg.sampleRate)
                  segs  == parseTranscriptFile(arg.text)
                  clips == extractSegments(y, arg.sampleRate, segs)
              IN  [stage |-> "run",
                   clips |-> [k \in 1..Len(clips) |-> ClipFacts(clips[k])]]
    /\ UNCHANGED <<PageVars, ServerVars, arg>>

NextEndToEnd == PipelineCall

SpecEndToEnd == InitEndToEnd /\ [][NextEndToEnd]_vars

\* a run with a second audio selection
NextReload ==
    \/ TranscriptFileChange(ReloadTranscripts)
    \/ AudioInputChange(ReloadFiles)
    \/ AudioInputChangeAgain(ReloadFiles)
    \/ ProcessClick
    \/ DownloadZipClick
    \/ ResetClick

SpecReload == Init /\ [][NextReload]_vars

\* a run in which audio files are selected while decodes are under way
NextAsync ==
    \/ TranscriptFileChange(ReloadTranscripts)
    \/ AudioSelect(ReloadFiles)
    \/ DecodeSettle
    \/ ProcessClick

SpecAsync == Init /\ [][NextAsync]_vars

\* a run that is repeated: the same transcript file is selected once more
\* and Process is clicked a second time, the audio staying as it is
NextRerun ==
    \/ TranscriptFileChange(ExtractTranscripts)
    \/ TranscriptFileChangeAgain
    \/ AudioInputChange(AudioFiles)
    \/ ProcessClick
    \/ ProcessClickAgain

SpecRerun == Init /\ [][NextRerun]_vars

\* encodeWAV called on its own: a buffer is encoded, the container is
\* decoded again, and the decoded samples are encoded once more
InitEncode ==
    /\ PageInit
    /\ ServerInit
    /\ arg \in EncodeArgs
    /\ ret = [stage |-> "new"]

EncodeCall ==
    /\ ret.stage = "new"
    /\ ret' = [stage |-> "encoded",
               blob  |-> encodeWAV(arg.samples, arg.sampleRate)]
    /\ UNCHANGED <<PageVars, ServerVars, arg>>

DecodeCall ==
    /\ ret.stage = "encoded"
    /\ ret' = [stage   |-> "decoded",
               blob    |-> ret.blob,
               samples |-> decodeAudioData(ret.blob)]
    /\ UNCHANGED <<PageVars, ServerVars, arg>>

ReencodeCall ==
    /\ ret.stage = "decoded"
    /\ ret' = [stage   |-> "reencoded",
               blob    |-> ret.blob,
               samples |-> ret.samples,
               blob2   |-> encodeWAV(ret.samples, arg.sampleRate)]
    /\ UNCHANGED <<PageVars, ServerVars, arg>>

\* safeFilename called on its own, on the first 30 characters of a text as
\* extractSegments calls it
InitName ==
    /\ PageInit
    /\ ServerInit
    /\ arg \in NameTexts
    /\ ret = [stage |-> "new"]

SafeFilenameCall ==
    /\ ret.stage = "new"
    /\ ret' = [stage |-> "named", name |-> safeFilename(Prefix(arg, 30))]
    /\ UNCHANGED <<PageVars, ServerVars, arg>>

NextName == SafeFilenameCall

SpecName == InitName /\ [][NextName]_vars

\* format_text called on its own, and its output given to the parser
InitExport ==
    /\ PageInit
    /\ ServerInit
    /\ arg \in ExportArgs
    /\ ret = [stage |-> "new"]

FormatTextCall ==
    /\ ret.stage = "new"
    /\ ret' = [stage |-> "exported", text |-> format_text(arg)]
    /\ UNCHANGED <<PageVars, ServerVars, arg>>

ParseExportCall ==
    /\ ret.stage = "exported"
    /\ ret' = [stage   |-> "parsed",
               text    |-> ret.text,
               entries |-> Timestamped(ret.text)]
    /\ UNCHANGED <<PageVars, ServerVars, arg>>

NextExport == FormatTextCall \/ ParseExportCall

SpecExport == InitExport /\ [][NextExport]_vars

NextEncode == EncodeCall \/ DecodeCall \/ ReencodeCall

SpecEncode == InitEncode /\ [][NextEncode]_vars

(***************************************************************************)
(* The server: download_status, the download threads, the cleanup passes.  *)
(* A dict is a function on its keys; download ids are numbered in the      *)
(* order of their creation, which is the order a dict iterates in.  A      *)
(* thread takes one step between two points where another thread can run.  *)
(***************************************************************************)
\* the entry start_audio_download stores
NewEntry(t) ==
    [progress   |-> 0,
     status     |-> "Initializing download...",
     success    |-> FALSE,
     error      |-> None,
     filename   |-> None,
     audio_data |-> None,
     created_at |-> t]

\* del d[k]
Remove(d, k) == [j \in DOMAIN d \ {k} |-> d[j]]

\* d[k].update(fields)
Update(d, k, fields) ==
    [d EXCEPT ![k] = [f \in DOMAIN @ |->
                         IF f \in DOMAIN fields THEN fields[f] ELSE @[f]]]

\* current_time - status.get('created_at', current_time) > 3600
IsOld(current_time, status) == current_time - status.created_at > MaxAge

\* current_time = time.time(); to_remove = []; the iterator of
\* download_status.items(): it remembers the size of the dict, the number
\* of items still to come and its position
iter(d, current_time) ==
    [pc           |-> "scan",
     current_time |-> current_time,
     used         |-> Cardinality(DOMAIN d),
     left         |-> Cardinality(DOMAIN d),
     pos          |-> 0,
     to_remove    |-> <<>>]

\* the keys the iterator has not passed
Ahead(d, p) == {k \in DOMAIN d : k > p.pos}

\* one round of the for loop: the iterator's iternext(), which raises
\* RuntimeError when the dict has another size than at the start or holds
\* an item beyond the number expected, and the loop body on the item
iternext(d, p) ==
    IF Cardinality(DOMAIN d) # p.used
    THEN [p EXCEPT !.pc = "RuntimeError"]
    ELSE IF Ahead(d, p) = {}
    THEN [p EXCEPT !.pc = "delete"]
    ELSE IF p.left = 0
    THEN [p EXCEPT !.pc = "RuntimeError"]
    ELSE LET k == CHOOSE j \in Ahead(d, p) : \A i \in Ahead(d, p) : j <= i
         IN  [p EXCEPT !.pos = k,
                       !.left = @ - 1,
                       !.to_remove = IF IsOld(p.current_time, d[k])
                                     THEN Append(@, k) ELSE @]

\* one round of `for download_id in to_remove: del ...`: KeyError when the
\* key is gone, "return" when the list is exhausted
delete(d, p) ==
    IF p.to_remove = <<>> THEN [p EXCEPT !.pc = "return"]
    ELSE IF Head(p.to_remove) \notin DOMAIN d
    THEN [p EXCEPT !.pc = "KeyError"]
    ELSE [p EXCEPT !.to_remove = Tail(@)]

\* the dict after that round
deleted(d, p) ==
    IF p.to_remove # <<>> /\ Head(p.to_remove) \in DOMAIN d
    THEN Remove(d, Head(p.to_remove))
    ELSE d

\* time passes
Tick ==
    /\ clock < MaxTicks * SleepSeconds
    /\ clock' = clock + SleepSeconds
    /\ UNCHANGED <<download_status, cleanup_thread, cleanup_request, threads,
                   PageVars, arg, ret>>

\* POST /api/audio/download with a url: a new id, its entry, its thread;
\* at most `limit` downloads are started in a run
start_audio_download(limit) ==
    /\ Len(threads) < limit
    /\ download_status' =
           download_status @@ (Len(threads) + 1 :> NewEntry(clock))
    /\ threads' = Append(threads, "begin")
    /\ UNCHANGED <<clock, cleanup_thread, cleanup_request, PageVars, arg, ret>>

\* background_cleanup wakes from time.sleep(1800) and starts a pass
BackgroundWake ==
    /\ cleanup_thread.pc = "sleep"
    /\ clock >= cleanup_thread.wake
    /\ cleanup_thread' = iter(download_status, clock)
    /\ UNCHANGED <<download_status, clock, cleanup_request, threads,
                   PageVars, arg, ret>>

\* one round of its first loop; an exception ends the thread
BackgroundScan ==
    /\ cleanup_thread.pc = "scan"
    /\ cleanup_thread' =
           LET q == iternext(download_status, cleanup_thread)
           IN  IF q.pc = "RuntimeError"
               THEN [pc |-> "dead", error |-> "RuntimeError"]
               ELSE q
    /\ UNCHANGED <<download_status, clock, cleanup_request, threads,
                   PageVars, arg, ret>>

\* one round of its second loop; after the last it sleeps again
BackgroundDelete ==
    /\ cleanup_thread.pc = "delete"
    /\ download_status' = deleted(download_status, cleanup_thread)
    /\ cleanup_thread' =
           LET q == delete(download_status, cleanup_thread)
           IN  IF q.pc = "KeyError"
               THEN [pc |-> "dead", error |-> "KeyError"]
               ELSE IF q.pc = "return"
               THEN [pc |-> "sleep", wake |-> clock + SleepSeconds]
               ELSE q
    /\ UNCHANGED <<clock, cleanup_request, threads, PageVars, arg, ret>>

\* GET /api/cleanup: cleanup_old_downloads starts a pass
cleanup_old_downloads ==
    /\ cleanup_request.pc = "idle"
    /\ cleanup_request.served < MaxCleanupCalls
    /\ cleanup_request' =
           iter(download_status, clock)
           @@ [served |-> cleanup_request.served, response |-> None]
    /\ UNCHANGED <<download_status, clock, cleanup_thread, threads,
                   PageVars, arg, ret>>

\* the end of a request: `response` is the status it is answered with
Respond(p, code) ==
    [pc |-> "idle", served |-> p.served + 1, response |-> code]

\* one round of its first loop; an exception is answered with 500
RequestScan ==
    /\ cleanup_request.pc = "scan"
    /\ cleanup_request' =
           LET q == iternext(download_status, cleanup_request)
           IN  IF q.pc = "RuntimeError" THEN Respond(q, "500") ELSE q
    /\ UNCHANGED <<download_status, clock, cleanup_thread, threads,
                   PageVars, arg, ret>>

\* one round of its second loop; after the last it answers 200
RequestDelete ==
    /\ cleanup_request.pc = "delete"
    /\ download_status' = deleted(download_status, cleanup_request)
    /\ cleanup_request' =
           LET q == delete(download_status, cleanup_request)
           IN  IF q.pc = "KeyError" THEN Respond(q, "500")
               ELSE IF q.pc = "return" THEN Respond(q, "200")
               ELSE q
    /\ UNCHANGED <<clock, cleanup_thread, threads, PageVars, arg, ret>>

\* the progress exceeding 99 stored as it is
CapNone(progress) == progress

\* min(progress, 99)
Cap(progress) == Min2(progress, 99)

\* the progress progress_hook computes from d: from the byte counts when
\* the total is known, else from the percent string (0 when it does not
\* parse), else 0.  In whole percent; d.percent is the number the percent
\* string parses to, Undefined when float() raises on it.
Progress(d) ==
    IF d.total_bytes # 0 THEN (d.downloaded_bytes * 100) \div d.total_bytes
    ELSE IF ~d.has_percent_str THEN 0
    ELSE IF d.percent = Undefined THEN 0
    ELSE d.percent

\* what progress_hook stores for d; nothing for another d['status'].  The
\* number, the speed and the ETA in the status text are left out.
HookFields(d) ==
    IF d.status = "downloading"
    THEN [progress |-> Cap(Progress(d)), status |-> "Downloading..."]
    ELSE IF d.status = "finished"
    THEN [progress |-> 99, status |-> "Converting to WAV format..."]
    ELSE <<>>

\* the dicts the downloader calls its hooks with
HookDict(has_id, status, downloaded, total, has_percent, percent) ==
    [has_id           |-> has_id,
     status           |-> status,
     downloaded_bytes |-> downloaded,
     total_bytes      |-> total,
     has_percent_str  |-> has_percent,
     percent          |-> percent]

HookDicts ==
    {HookDict(FALSE, "downloading", 1, 2, FALSE, 0),
     HookDict(TRUE, "downloading", 1, 2, FALSE, 0),
     HookDict(TRUE, "downloading", 5, 4, TRUE, 30),
     HookDict(TRUE, "downloading", 0, 0, TRUE, 120),
     HookDict(TRUE, "downloading", 0, 0, TRUE, Undefined),
     HookDict(TRUE, "downloading", 0, 0, FALSE, 0),
     HookDict(TRUE, "finished", 4, 4, FALSE, 0),
     HookDict(TRUE, "error", 0, 0, FALSE, 0)}

\* thread `id` has been started and stands at pc
ThreadAt(id, pc) == id \in DOMAIN threads /\ threads[id] = pc

\* thread `id` moves to pc
Goto(id, pc) == threads' = [threads EXCEPT ![id] = pc]

\* a statement download_status[download_id]... of the try block: KeyError,
\* caught by the except clause, when the entry is gone
Store(id, fields, pc) ==
    IF id \in DOMAIN download_status
    THEN /\ download_status' = Update(download_status, id, fields)
         /\ Goto(id, pc)
    ELSE /\ Goto(id, "except")
         /\ UNCHANGED download_status

\* download_audio_background, lines 63-80: the two status texts, of which
\* the second replaces the first
SetStatus(id) ==
    /\ ThreadAt(id, "begin")
    /\ Store(id, [status |-> "Starting download..."], "extract")
    /\ UNCHANGED <<clock, cleanup_thread, cleanup_request, PageVars, arg, ret>>

\* lines 82-94: extract_info raises, or the filename is stored
ExtractInfo(id) ==
    /\ ThreadAt(id, "extract")
    /\ \/ Goto(id, "except") /\ UNCHANGED download_status
       \/ Store(id, [filename |-> "title.wav",
                     status   |-> "Downloading audio..."], "download")
    /\ UNCHANGED <<clock, cleanup_thread, cleanup_request, PageVars, arg, ret>>

\* line 96, process_info: it calls progress_hook with some d, which returns
\* at once (lines 22-24) without an id or without the entry; or it raises;
\* or it returns
ProcessInfo(id) ==
    /\ ThreadAt(id, "download")
    /\ \/ \E d \in HookDicts :
            IF d.has_id /\ id \in DOMAIN download_status
            THEN Goto(id, "hook")
            ELSE UNCHANGED threads
       \/ Goto(id, "except")
       \/ Goto(id, "converted")
    /\ UNCHANGED <<download_status, clock, cleanup_thread, cleanup_request,
                   PageVars, arg, ret>>

\* progress_hook from line 26: status = download_status[download_id] raises
\* KeyError inside process_info when the entry has gone since the test
progress_hook(id) ==
    /\ ThreadAt(id, "hook")
    /\ IF id \in DOMAIN download_status
       THEN /\ \E d \in {h \in HookDicts : h.has_id} :
                   download_status' =
                       Update(download_status, id, HookFields(d))
            /\ Goto(id, "download")
       ELSE /\ Goto(id, "except")
            /\ UNCHANGED download_status
    /\ UNCHANGED <<clock, cleanup_thread, cleanup_request, PageVars, arg, ret>>

\* lines 98-117: the WAV file is read and stored, or it is not found
StoreAudio(id) ==
    /\ ThreadAt(id, "converted")
    /\ \/ Goto(id, "except") /\ UNCHANGED download_status
       \/ Store(id, [progress   |-> 100,
                     status     |-> "Download completed!",
                     success    |-> TRUE,
                     audio_data |-> "bytes",
                     filename   |-> "title.wav"], "finished")
    /\ UNCHANGED <<clock, cleanup_thread, cleanup_request, PageVars, arg, ret>>

\* lines 119-125, the except clause: its own update raises KeyError when
\* the entry is gone, and nothing catches that
Except(id) ==
    /\ ThreadAt(id, "except")
    /\ IF id \in DOMAIN download_status
       THEN /\ download_status' =
                   Update(download_status, id,
                          [progress |-> 0,
                           status   |-> "Download failed",
                           success  |-> FALSE,
                           error    |-> "str(e)"])
            /\ Goto(id, "finished")
       ELSE /\ Goto(id, "unhandled")
            /\ UNCHANGED download_status
    /\ UNCHANGED <<clock, cleanup_thread, cleanup_request, PageVars, arg, ret>>

download_audio_background(id) ==
    \/ SetStatus(id)
    \/ ExtractInfo(id)
    \/ ProcessInfo(id)
    \/ progress_hook(id)
    \/ StoreAudio(id)
    \/ Except(id)

\* the downloads and the background cleanup
NextServer ==
    \/ Tick
    \/ start_audio_download(MaxDownloads)
    \/ \E id \in 1..MaxDownloads : download_audio_background(id)
    \/ BackgroundWake
    \/ BackgroundScan
    \/ BackgroundDelete

SpecServer == Init /\ [][NextServer]_vars

\* the cleanup passes of the thread and of the route, with entries being
\* created meanwhile; the download threads have not come to run
NextCleanup ==
    \/ Tick
    \/ start_audio_download(MaxEntries)
    \/ BackgroundWake
    \/ BackgroundScan
    \/ BackgroundDelete
    \/ cleanup_old_downloads
    \/ RequestScan
    \/ RequestDelete

SpecCleanup == Init /\ [][NextCleanup]_vars

(***************************************************************************)
(* Properties                                                              *)
(***************************************************************************)
Parsed == "transcript" \in done

Processed == "process" \in done

\* HH*3600 + MM*60 + SS, in ticks
HMSTicks(a) == (a[1] * 3600 + a[2] * 60 + a[3]) * TicksPerSecond

\* M*60 + S, in ticks
MSTicks(a) == (a[1] * 60 + a[2]) * TicksPerSecond

\* C4: the layouts are tried in their listed order and the first that
\* matches decides the entry: a line `M:SS - M:SS text`, whatever its
\* spacing around the dash and whatever its text, gives exactly one entry
\* with that start, that end and that text, never a start-only entry whose
\* text begins with the dash; and a line that a range layout matches gives
\* an entry with an end even when a start-only layout matches it too.
C4_RangeLayoutWins ==
    Parsed =>
        /\ \A a \in MSTimes, g \in Gaps, b \in MSEnds, t \in Texts :
            txt = SimpleRange(a, g, b, t)
                => timestamped = <<Entry(MSTicks(a), MSTicks(b), t)>>
        /\ (M1(txt).ok \/ M3(txt).ok \/ M4(txt).ok)
                => /\ Len(timestamped) = 1
                   /\ timestamped[1].end # Undefined

\* a range line that the bare `M:SS text` layout matches as well has been
\* parsed
C4_Witness ==
    /\ Parsed
    /\ M3(txt).ok /\ M7(txt).ok
    /\ \E a \in MSTimes, b \in MSEnds, t \in Texts :
        txt = SimpleRange(a, <<" ", "-", " ">>, b, t)

\* C10: the conversions are exact on the captured fields: HH:MM:SS gives
\* HH*3600 + MM*60 + SS, HH:MM:SS,mmm that plus mmm/1000, M:SS gives
\* M*60 + S, also for fields of 60 and more; no start is negative.
C10_ConversionExact ==
    Parsed =>
        /\ \A a \in HMSTimes, b \in HMSEnds :
            txt = BracketRange(a, b, <<"h", "i">>)
                => /\ timestamped[1].start = HMSTicks(a)
                   /\ timestamped[1].end = HMSTicks(b)
        /\ \A a \in HMSTimes, am \in Millis :
            txt = SubtitleBlock(a, am, <<0, 0, 8>>, 500, <<"h", "i">>)
                => /\ timestamped[1].start
                        = HMSTicks(a) + (am * TicksPerSecond) \div 1000
                   /\ timestamped[1].end
                        = HMSTicks(<<0, 0, 8>>) + (500 * TicksPerSecond) \div 1000
        /\ \A a \in MSTimes, t \in Texts :
            (\/ txt = BracketOnset(a, t)
             \/ txt = ParenOnset(a, t)
             \/ txt = BareOnset(a, t))
                => timestamped[1].start = MSTicks(a)
        /\ \A a \in MSTimes, g \in Gaps, b \in MSEnds, t \in Texts :
            txt = SimpleRange(a, g, b, t)
                => /\ timestamped[1].start = MSTicks(a)
                   /\ timestamped[1].end = MSTicks(b)
        /\ \A k \in 1..Len(timestamped) : timestamped[k].start >= 0

\* a subtitle block whose hour, minute and second fields are all above 59,
\* with a millisecond part, has been parsed
C10_Witness ==
    /\ Parsed
    /\ txt = SubtitleBlock(<<99, 60, 99>>, 999, <<0, 0, 8>>, 500, <<"h", "i">>)
    /\ Len(timestamped) = 1
    /\ timestamped[1].start = 360099999

AllEndsMissing(ts) == \A k \in 1..Len(ts) : ts[k].end = Undefined

AllEndsGiven(ts) == \A k \in 1..Len(ts) : ts[k].end # Undefined

\* the end the synthesis rule gives entry k: the next start, or the start
\* plus 3.0 s for the last entry
RuleEnd(ts, k) ==
    IF k < Len(ts) THEN ts[k + 1].start ELSE ts[k].start + 3 * TicksPerSecond

EndsSynthesized(ts, segs) ==
    /\ Len(segs) = Len(ts)
    /\ \A k \in 1..Len(ts) :
        /\ segs[k].start = ts[k].start
        /\ segs[k].text = ts[k].text
        /\ segs[k].end = RuleEnd(ts, k)

\* C3: when no parsed entry carries an end, every segment's end is the next
\* entry's start and the last segment's end is its start + 3.0 s, with
\* start, text, count and order kept; starts 0, 5, 9 give (0,5), (5,9),
\* (9,12).
C3_EndsFromNextStart ==
    Parsed =>
        /\ (Len(timestamped) > 0 /\ AllEndsMissing(timestamped))
                => EndsSynthesized(timestamped, parsedSegments)
        /\ txt = SynthesisExample
                => parsedSegments = <<Entry(0, 5000, <<"a">>),
                                      Entry(5000, 9000, <<"b">>),
                                      Entry(9000, 12000, <<"c">>)>>

\* the three onset-only lines of the example have been parsed
C3_Witness ==
    /\ Parsed
    /\ txt = SynthesisExample
    /\ Len(timestamped) = 3 /\ AllEndsMissing(timestamped)
    /\ parsedSegments[3].end = 12000

\* a line matches a layout: one of the expressions matches it, the subtitle
\* timing line counting only when a text line follows it
LineMatches(lines, i) ==
    LET line == lines[i]
        next == IF i + 1 <= Len(lines) THEN lines[i + 1] ELSE <<>>
    IN  /\ line # <<>>
        /\ \/ M1(line).ok
           \/ M2(line).ok /\ next # <<>>
           \/ M3(line).ok \/ M4(line).ok \/ M5(line).ok
           \/ M6(line).ok \/ M7(line).ok \/ M8(line).ok

MatchingLines(lines) == {i \in 1..Len(lines) : LineMatches(lines, i)}

\* the k-th smallest member of a set of numbers
Kth(S, k) == CHOOSE x \in S : Cardinality({y \in S : y <= x}) = k

\* C5: the parser emits exactly one entry for each line that matches a
\* layout, none for a blank line or a line matching no layout, and the
\* entries stand in line order; the five-line mixed file (layouts 1, 3, 5,
\* 6 and an unmatched line) gives exactly four segments.
C5_OneEntryPerMatchingLine ==
    Parsed =>
        LET lines == TrimmedLines(txt)
            hits  == MatchingLines(lines)
        IN  /\ Len(timestamped) = Cardinality(hits)
            /\ \A k \in 1..Len(timestamped) :
                <<timestamped[k]>> = LineEntries(lines, Kth(hits, k))
            /\ Len(parsedSegments) = Len(timestamped)
            /\ txt = MixedExample
                => /\ Len(parsedSegments) = 4
                   /\ [k \in 1..4 |-> parsedSegments[k].start]
                        = <<5000, 65000, 5000, 9000>>

\* the five-line mixed file has been parsed into four segments
C5_Witness ==
    /\ Parsed
    /\ txt = MixedExample
    /\ Len(TrimmedLines(txt)) = 5
    /\ Len(parsedSegments) = 4

\* the entries when a subtitle block takes its text line with it: the loop
\* goes on after the text line
RECURSIVE BlockParse(_, _)
BlockParse(lines, i) ==
    IF i > Len(lines) THEN <<>>
    ELSE IF M2(lines[i]).ok /\ i + 1 <= Len(lines) /\ lines[i + 1] # <<>>
    THEN LineEntries(lines, i) \o BlockParse(lines, i + 2)
    ELSE LineEntries(lines, i) \o BlockParse(lines, i + 1)

\* C6: a subtitle timing line followed by a text line gives exactly one
\* entry and takes both lines: the text line is not matched against the
\* layouts on its own, so the entries are those of a parse that goes on
\* after the text line.
C6_BlockTakesBothLines ==
    Parsed => timestamped = BlockParse(TrimmedLines(txt), 1)

\* C7: every segment handed to extraction has a defined end and satisfies
\* end > start >= 0.
C7_SegmentsWellFormed ==
    Parsed =>
        \A k \in 1..Len(parsedSegments) :
            /\ parsedSegments[k].end # Undefined
            /\ parsedSegments[k].end > parsedSegments[k].start
            /\ parsedSegments[k].start >= 0

\* C8: a mixed sequence (some entries with an end, some without) gets every
\* end synthesized, wherever the entries with an end stand.
C8_MixedAllSynthesized ==
    (/\ Parsed
     /\ ~AllEndsMissing(timestamped)
     /\ ~AllEndsGiven(timestamped))
        => EndsSynthesized(timestamped, parsedSegments)

\* C9: when every parsed entry carries an end, the segments are the
\* entries, unchanged.
C9_PassThrough ==
    (Parsed /\ AllEndsGiven(timestamped)) => parsedSegments = timestamped

\* two entries with explicit ends, the second one's end differing from what
\* synthesis would give, have passed through
C9_Witness ==
    /\ Parsed
    /\ Len(timestamped) = 2 /\ AllEndsGiven(timestamped)
    /\ timestamped[1].end # timestamped[2].start
    /\ parsedSegments = timestamped

\* f = floor(t * sr) for a time t in ticks: f <= t * sr / ticks < f + 1
IsFloor(f, t, sr) ==
    /\ f * TicksPerSecond <= t * sr
    /\ t * sr < (f + 1) * TicksPerSecond

\* si = max(0, floor(start * sr)), for an si within the buffer
IsStartIndex(si, seg, sr) == IsFloor(si, seg.start, sr)

\* ei = min(n, floor(end * sr)) for a buffer of n samples
IsEndIndex(ei, n, seg, sr) ==
    /\ seg.end # Undefined
    /\ \/ ei < n /\ IsFloor(ei, seg.end, sr)
       \/ ei = n /\ seg.end * sr >= n * TicksPerSecond

\* C1: the clip of a segment holds exactly the samples
\* buffer[startIndex .. endIndex), in order, where startIndex =
\* max(0, floor(start * sampleRate)) and endIndex = min(bufferLength,
\* floor(end * sampleRate)); its sample count is endIndex - startIndex.
\* (A segment without an end has no endIndex; see C7.)
C1_ClipIsTheIndexedSlice ==
    Processed =>
        \A c \in 1..Len(extractedSegments) :
            LET clip == extractedSegments[c]
                seg  == parsedSegments[clip.number]
                n    == Len(audioBuffer)
            IN  seg.end # Undefined =>
                    \E si \in 0..n, ei \in 0..n :
                        /\ IsStartIndex(si, seg, sampleRate)
                        /\ IsEndIndex(ei, n, seg, sampleRate)
                        /\ Len(clip.samples) = ei - si
                        /\ \A k \in 1..(ei - si) :
                            clip.samples[k] = audioBuffer[si + k]

\* a clip was cut whose start falls between two samples and whose end lies
\* beyond the buffer: both the floor and the clamp acted
C1_Witness ==
    /\ Processed
    /\ \E c \in 1..Len(extractedSegments) :
        LET clip == extractedSegments[c]
            seg  == parsedSegments[clip.number]
        IN  /\ seg.end # Undefined
            /\ (seg.start * sampleRate) % TicksPerSecond # 0
            /\ seg.end * sampleRate > Len(audioBuffer) * TicksPerSecond
            /\ Len(clip.samples) >= 2

\* segment i maps onto a non-empty index range: endIndex > startIndex
ValidRange(i) ==
    \E si \in 0..Len(audioBuffer), ei \in 0..Len(audioBuffer) :
        /\ IsStartIndex(si, parsedSegments[i], sampleRate)
        /\ IsEndIndex(ei, Len(audioBuffer), parsedSegments[i], sampleRate)
        /\ ei > si

\* C2: extraction runs to completion on any segment list; a segment with
\* endIndex <= startIndex is skipped, and exactly the segments with
\* endIndex > startIndex give one clip each, in segment order.
C2_ExactlyTheValidSegments ==
    Processed =>
        LET valid == {i \in 1..Len(parsedSegments) : ValidRange(i)}
        IN  /\ Len(extractedSegments) = Cardinality(valid)
            /\ \A c \in 1..Len(extractedSegments) :
                extractedSegments[c].number = Kth(valid, c)

Encoded == ret.stage \in {"encoded", "decoded", "reencoded"}

\* Math.round of the quotient a / b (b > 0)
RoundDiv(a, b) == (a \div b) + (IF 2 * (a % b) >= b THEN 1 ELSE 0)

\* the number the bytes at positions pos .. pos + n - 1 hold, low byte first
ReadLE(bytes, pos, n) ==
    IF n = 2 THEN bytes[pos] + 256 * bytes[pos + 1]
    ELSE bytes[pos] + 256 * bytes[pos + 1] + 65536 * bytes[pos + 2]
         + 16777216 * bytes[pos + 3]

\* the k-th 16-bit value of the data chunk, as a signed number
DataValue(bytes, k) ==
    LET u == ReadLE(bytes, 43 + 2 * k, 2)
    IN  IF u >= 32768 THEN u - 65536 ELSE u

\* round(clamp(s, -1, 1) * (s < 0 ? 32768 : 32767)) for a sample s
RoundedPCM(s) ==
    LET c == IF s > SampleUnit THEN SampleUnit
             ELSE IF s < -SampleUnit THEN -SampleUnit ELSE s
    IN  RoundDiv(IF c < 0 THEN c * 32768 ELSE c * 32767, SampleUnit)

\* C11: every sample s is stored as the 16-bit signed value
\* round(clamp(s, -1, 1) * (s < 0 ? 32768 : 32767)), low byte first: the
\* nearest integer to the scaled sample, not its truncation.
C11_StoredValueIsRounded ==
    Encoded =>
        \A k \in 1..Len(arg.samples) :
            DataValue(ret.blob, k) = RoundedPCM(arg.samples[k])

\* C12: for n samples at rate r the container is 44 + 2n bytes: "RIFF",
\* 36 + 2n, "WAVE", "fmt ", 16, format 1, 1 channel, r, byte rate 2r, block
\* align 2, 16 bits, "data", 2n, then the n PCM values in sample order.
C12_ContainerLayout ==
    Encoded =>
        LET b == ret.blob
            n == Len(arg.samples)
            r == arg.sampleRate
        IN  /\ Len(b) = 44 + 2 * n
            /\ SubSeq(b, 1, 4) = <<82, 73, 70, 70>>
            /\ ReadLE(b, 5, 4) = 36 + 2 * n
            /\ SubSeq(b, 9, 12) = <<87, 65, 86, 69>>
            /\ SubSeq(b, 13, 16) = <<102, 109, 116, 32>>
            /\ ReadLE(b, 17, 4) = 16
            /\ ReadLE(b, 21, 2) = 1
            /\ ReadLE(b, 23, 2) = 1
            /\ ReadLE(b, 25, 4) = r
            /\ ReadLE(b, 29, 4) = 2 * r
            /\ ReadLE(b, 33, 2) = 2
            /\ ReadLE(b, 35, 2) = 16
            /\ SubSeq(b, 37, 40) = <<100, 97, 116, 97>>
            /\ ReadLE(b, 41, 4) = 2 * n
            /\ \A k \in 1..n : DataValue(b, k) = PCM16(arg.samples[k])
            /\ \A k \in 1..Len(b) : b[k] \in 0..255

\* two different samples at 44100 Hz have been encoded
C12_Witness ==
    /\ ret.stage = "encoded"
    /\ arg.sampleRate = 44100
    /\ Len(arg.samples) = 2
    /\ arg.samples[1] < 0 /\ arg.samples[2] > 0
    /\ Len(ret.blob) = 48

\* C13: decoding the container gives the quantized samples exactly, and
\* encoding the decoded samples again gives the same 16-bit values as the
\* first encoding.
C13_RoundTripLosesNothing ==
    /\ ret.stage \in {"decoded", "reencoded"} =>
        /\ Len(ret.samples) = Len(arg.samples)
        /\ \A k \in 1..Len(ret.samples) :
            ret.samples[k] * 32768 = DataValue(ret.blob, k) * SampleUnit
    /\ ret.stage = "reencoded" =>
        \A k \in 1..Len(ret.samples) :
            DataValue(ret.blob2, k) = DataValue(ret.blob, k)

\* the positions extractSegments logged as skipped
SkippedPositions ==
    {segmentLog[k][2] :
        k \in {j \in 1..Len(segmentLog) :
                 segmentLog[j][1] = "Skipped invalid timing for segment"}}

\* C14: the clip of the segment at position n (counted from 1 over every
\* segment of the list, the skipped ones included) is named segment_, n
\* padded with zeros to three digits, _, the sanitized text, .wav; the names
\* of one run are all different.
C14_NameFollowsPosition ==
    Processed =>
        /\ \A c \in 1..Len(extractedSegments) :
            \E n \in 1..Len(parsedSegments) :
                /\ n = c + Cardinality({i \in SkippedPositions : i < n})
                /\ n \notin SkippedPositions
                /\ extractedSegments[c].text = parsedSegments[n].text
                /\ extractedSegments[c].start_time = parsedSegments[n].start
                /\ extractedSegments[c].filename =
                        <<"s", "e", "g", "m", "e", "n", "t", "_">> \o D3(n)
                        \o <<"_">>
                        \o safeFilename(Prefix(parsedSegments[n].text, 30))
                        \o <<".", "w", "a", "v">>
        /\ \A c, d \in 1..Len(extractedSegments) :
            c # d => extractedSegments[c].filename # extractedSegments[d].filename

\* the first segment was skipped and the second one's clip is number 002
C14_Witness ==
    /\ Processed
    /\ SkippedPositions = {1}
    /\ Len(extractedSegments) = 1
    /\ SubSeq(extractedSegments[1].filename, 1, 12)
            = <<"s", "e", "g", "m", "e", "n", "t", "_", "0", "0", "2", "_">>

Named == ret.stage = "named"

\* C15: the sanitized text has 2 to 25 characters and neither begins nor
\* ends with an underscore or a period.
C15_SanitizedTextBounds ==
    Named =>
        /\ Len(ret.name) >= 2
        /\ Len(ret.name) <= 25
        /\ ret.name[1] \notin {"_", "."}
        /\ ret.name[Len(ret.name)] \notin {"_", "."}

\* alphanumeric, space, hyphen, underscore or period
IsAllowed(c) == c \in Letters \/ IsDigit(c) \/ c \in {" ", "-", "_", "."}

\* C16: characters that are not alphanumeric, space, hyphen, underscore or
\* period, diacritic marks among them, contribute nothing to the sanitized
\* text: a text and the same text without them sanitize alike.
C16_DisallowedCharactersVanish ==
    (Named /\ Len(arg) <= 30) =>
        ret.name = safeFilename(SelectSeq(NFKD(arg), IsAllowed))

\* C17: the line `[00:00:05 - 00:00:08] hello world` with 20 seconds of
\* mono audio at 16000 Hz gives exactly one clip, segment_001_hello_world.wav,
\* of duration 3.0 s, with a data chunk of 96000 bytes and a RIFF chunk size
\* of 36 + 96000.
C17_EndToEnd ==
    (/\ ret.stage = "run"
     /\ arg.text = EndToEndLine
     /\ arg.sampleRate = 16000
     /\ arg.seconds = 20)
        => /\ Len(ret.clips) = 1
           /\ ret.clips[1].filename =
                <<"s", "e", "g", "m", "e", "n", "t", "_", "0", "0", "1", "_",
                  "h", "e", "l", "l", "o", "_", "w", "o", "r", "l", "d",
                  ".", "w", "a", "v">>
           /\ ret.clips[1].duration = 3 * TicksPerSecond
           /\ ret.clips[1].size = 44 + 96000
           /\ ReadLE(ret.clips[1].header, 41, 4) = 96000
           /\ ReadLE(ret.clips[1].header, 5, 4) = 36 + 96000

\* the scenario has been run
C17_Witness ==
    /\ ret.stage = "run"
    /\ arg = [text |-> EndToEndLine, seconds |-> 20, sampleRate |-> 16000]
    /\ Len(ret.clips) = 1
    /\ ret.clips[1].size > 44

Downloaded == "download" \in done

\* str is the number t (in ticks) written with two decimals
IsTwoDecimals(str, t) ==
    /\ Len(str) >= 4
    /\ str[Len(str) - 2] = "."
    /\ \A k \in (1..Len(str)) \ {Len(str) - 2} : IsDigit(str[k])
    /\ (DigitsValue(SubSeq(str, 1, Len(str) - 3)) * 100
        + DigitsValue(SubSeq(str, Len(str) - 1, Len(str))))
       * (TicksPerSecond \div 100) = t

\* C18: the archive holds exactly one file per clip, under the clip's name
\* and with the clip's bytes, and one manifest; the manifest has one entry
\* per clip in clip order, and entry "Segment N" gives the N-th clip's
\* filename, text, start, end and duration (two decimals).
C18_ArchiveContents ==
    Downloaded =>
        LET files == extractedSegments
            named(nm) == {k \in 1..Len(zip) : zip[k].name = nm}
        IN  /\ Len(zip) = Len(files) + 1
            /\ \A c \in 1..Len(files) :
                /\ Cardinality(named(files[c].filename)) = 1
                /\ \A k \in named(files[c].filename) : zip[k].data = files[c].blob
            /\ Cardinality(named(MetadataName)) = 1
            /\ \A k \in named(MetadataName) :
                LET meta == zip[k].data
                IN  /\ Len(meta) = 1 + 5 * Len(files)
                    /\ \A n \in 1..Len(files) :
                        LET at == 1 + 5 * (n - 1)
                        IN  /\ meta[at + 1] = <<"Segment", n, files[n].filename>>
                            /\ meta[at + 2] = <<"Text", files[n].text>>
                            /\ meta[at + 3][1] = "Start"
                            /\ IsTwoDecimals(meta[at + 3][2], files[n].start_time)
                            /\ meta[at + 4][1] = "End"
                            /\ IsTwoDecimals(meta[at + 4][2], files[n].end_time)
                            /\ meta[at + 5][1] = "Duration"
                            /\ IsTwoDecimals(meta[at + 5][2], files[n].duration)

\* two clips, the second starting at 1.5 s, have been packed
C18_Witness ==
    /\ Downloaded
    /\ Len(extractedSegments) = 2
    /\ extractedSegments[2].start_time = 1500
    /\ Len(zip) = 3

Succeeded == Processed /\ resultsStatus = "Segments ready."

\* the counts a run shows: #mTotal and the count of the "Extracted" line
ShownCounts ==
    {mTotal} \cup {segmentLog[k][2] :
                    k \in {j \in 1..Len(segmentLog) :
                             segmentLog[j][1] = "Extracted"}}

\* C19: a successful run reports the number of clips produced and the
\* number of segments skipped, and the two add up to the number of segments
\* given to extraction.
C19_ProducedAndSkippedReported ==
    Succeeded =>
        /\ Len(extractedSegments) \in ShownCounts
        /\ (Len(parsedSegments) - Len(extractedSegments)) \in ShownCounts
        /\ Len(extractedSegments) + Cardinality(SkippedPositions)
                = Len(parsedSegments)

\* the log lines that end an audio selection
AudioOutcomes ==
    {k \in 1..Len(segmentLog) :
        segmentLog[k][1] \in {"Loaded", "Audio load failed"}}

\* the latest audio selection failed to decode
LastDecodeFailed ==
    /\ AudioOutcomes # {}
    /\ segmentLog[CHOOSE k \in AudioOutcomes : \A j \in AudioOutcomes : j <= k][1]
            = "Audio load failed"

\* C20: after the decode of the selected audio file has failed the page
\* holds no sample buffer, neither a partial one nor that of an earlier
\* file, and no extraction runs until a later decode succeeds.
C20_NoBufferAfterDecodeFailure ==
    /\ LastDecodeFailed => audioBuffer = <<>>
    /\ \A i, j \in 1..Len(segmentLog) :
        (/\ i < j
         /\ segmentLog[i][1] = "Audio load failed"
         /\ segmentLog[j][1] = "Extracting segments")
            => \E k \in (i + 1)..(j - 1) : segmentLog[k][1] = "Loaded"

\* C21: a run that yields no clip ends in a "nothing to package" condition:
\* the result is not reported as ready and no archive download is offered.
C21_EmptyResultNotReady ==
    (Processed /\ Len(extractedSegments) = 0)
        => /\ resultsStatus # "Segments ready."
           /\ zipDisabled

\* C30: a clip's duration times the sample rate is its sample count, up to
\* the floor rounding of its two indices (less than one sample each), also
\* when the slice is clamped to the buffer.
C30_DurationMatchesSamples ==
    Processed =>
        \A c \in 1..Len(extractedSegments) :
            LET f == extractedSegments[c]
            IN  f.end_time # Undefined =>
                    /\ f.duration * sampleRate
                            > (Len(f.samples) - 1) * TicksPerSecond
                    /\ f.duration * sampleRate
                            < (Len(f.samples) + 1) * TicksPerSecond

\* the entries the claim expects for the snippets: one start-only entry per
\* snippet with a text, its start cut to whole seconds
RECURSIVE ExportedEntries(_)
ExportedEntries(snippets) ==
    IF snippets = <<>> THEN <<>>
    ELSE (IF Head(snippets).text # <<>>
          THEN <<Entry((Head(snippets).start \div TicksPerSecond) * TicksPerSecond,
                       Undefined, Head(snippets).text)>>
          ELSE <<>>)
         \o ExportedEntries(Tail(snippets))

\* C29: the line `[MM:SS] text` format_text writes for a snippet with a
\* text is matched by the parser as a start-only entry with the snippet's
\* start in whole seconds and the snippet's text, for every start time.
C29_ExportParsesBack ==
    ret.stage = "parsed" => ret.entries = ExportedEntries(arg)

\* C22: extraction copies.  A Process step leaves the sample buffer, the
\* rate and the segment list as they were; a step that replaces or releases
\* the buffer (another audio file, Reset) changes no clip: the clip list is
\* either the same or, after Reset, empty, and an archive already built
\* keeps its bytes.
C22_ClipsOwnTheirSamples ==
    [][/\ ("process" \notin done /\ "process" \in done')
            => /\ audioBuffer' = audioBuffer
               /\ sampleRate' = sampleRate
               /\ parsedSegments' = parsedSegments
       /\ (Processed /\ audioBuffer' # audioBuffer)
            => /\ \/ extractedSegments' = extractedSegments
                  \/ "reset" \notin done /\ "reset" \in done'
                     /\ extractedSegments' = <<>>
               /\ zip' = zip]_vars

\* clips are held while the buffer they were cut from has been replaced by
\* a shorter one
C22_Witness ==
    /\ Processed
    /\ "audio again" \in done
    /\ audioBuffer # <<>>
    /\ \E c \in 1..Len(extractedSegments) :
           Len(extractedSegments[c].samples) > Len(audioBuffer)

\* the buffer has been released by Reset after an archive was built
C22_WitnessReset ==
    /\ Processed
    /\ "reset" \in done
    /\ zip # <<>>

C23_ProcessUsesLatestFile ==
    [][("process" \notin done /\ "process" \in done'
            /\ pending = <<>> /\ audioFile.ok)
          => extractedSegments' =
                extractSegments(audioFile.samples, audioFile.sr,
                                parsedSegments)]_vars

\* a step in which the cleanup pass p ends, by its return or by an
\* exception; q is the pass after the step
PassEnds(p, q) == p.pc \in {"scan", "delete"} /\ q.pc \notin {"scan", "delete"}

\* what one step of a pass p, q after it, may do to the store: it removes
\* no entry that is not older than MaxAge at the pass's time and changes
\* none, and when the pass ends no entry older than that is left
PassExpiresByAge(p, q) ==
    /\ (p.pc = "delete" /\ q # p)
            => \A k \in DOMAIN download_status :
                   ~IsOld(p.current_time, download_status[k])
                       => /\ k \in DOMAIN download_status'
                          /\ download_status'[k] = download_status[k]
    /\ PassEnds(p, q)
            => \A k \in DOMAIN download_status' :
                   ~IsOld(p.current_time, download_status'[k])

\* C25: a cleanup pass, of the route or of the background thread, removes
\* exactly the entries created more than 3600 seconds before it: every
\* younger entry stays with all its fields, and once the pass has ended no
\* older entry is left.
C25_PassRemovesExactlyOld ==
    [][/\ PassExpiresByAge(cleanup_thread, cleanup_thread')
       /\ PassExpiresByAge(cleanup_request, cleanup_request')]_vars

\* C26: the background cleanup loop keeps running: its thread is never
\* ended by an exception, so every entry is removed by a later pass; an
\* entry inserted while a pass iterates does not end it.
C26_CleanupLoopKeepsRunning == cleanup_thread.pc # "dead"

\* C27: a download thread ends normally whatever happens to its entry: no
\* exception leaves download_audio_background unhandled.
C27_DownloadEndsNormally ==
    \A id \in DOMAIN threads : threads[id] # "unhandled"

\* the thread of download id has not ended
Running(id) == threads[id] \notin {"finished", "unhandled"}

\* C28: of every entry in download_status: success only with progress 100
\* and with the audio data and the filename stored; progress at most 99
\* while its download thread runs; an error only with success False and
\* progress 0.
C28_StatusConsistent ==
    \A id \in DOMAIN download_status :
        LET e == download_status[id]
        IN  /\ e.success => /\ e.progress = 100
                            /\ e.audio_data # None
                            /\ e.filename # None
            /\ Running(id) => e.progress <= 99
            /\ e.error # None => ~e.success /\ e.progress = 0

\* a download has succeeded
C28_Witness ==
    \E id \in DOMAIN download_status :
        /\ download_status[id].success
        /\ threads[id] = "finished"

\* a download has failed after the hook had stored a capped progress
C28_WitnessFailed ==
    \E id \in DOMAIN download_status :
        /\ download_status[id].error # None
        /\ download_status[id].filename # None

\* a running download whose progress stands at the cap
C28_WitnessRunning ==
    \E id \in DOMAIN download_status :
        /\ Running(id)
        /\ download_status[id].progress = 99
        /\ download_status[id].status = "Downloading..."

====
